---------------------------- MODULE Spec2Model ----------------------------
(***************************************************************************)
(* The job orchestrator of AI Shorts Studio (server/videoWorker.ts) and    *)
(* the part of the rendering engine it drives (server/videoRenderer.ts),   *)
(* as a state machine.                                                      *)
(*                                                                         *)
(* Shared state is the database (jobs, job_steps, assets, settings).       *)
(* Every worker process has its own memory (WORKER_ID, jobQueue,           *)
(* isProcessing, the locals of the processJob call in progress).  One      *)
(* action is one database operation taking effect together with the code   *)
(* that runs synchronously after it, up to the next awaited operation; an  *)
(* external call (generator, encoder) is in flight between the action that *)
(* issues it and the action that consumes its result.                      *)
(***************************************************************************)
EXTENDS Integers, Sequences, FiniteSets, TLC

(***************************************************************************)
(* Bounds of the model.                                                    *)
(***************************************************************************)
MaxScenes == 2
\* The longest scene list the duration reconciliation is tried on by itself.
MaxProbeScenes == 4
MaxCrashes == 1
MaxFaults == 1

Workers == {"w1", "w2"}
JobOrder == <<"j1", "j2">>
Jobs == {JobOrder[1]}
QueueJobs == {JobOrder[k] : k \in 1..Len(JobOrder)}
NoJob == "none"

(***************************************************************************)
(* Program constants.                                                      *)
(***************************************************************************)
LEASE_SECONDS == 120
LEASE_RENEW_INTERVAL == 30000
MAX_CONSECUTIVE_FAILURES == 3
targetDurationSeconds == 90

\* Instants are in seconds and kept relative to the current one: new Date()
\* is the origin, and a tick moves every stored instant TickSeconds into the
\* past.  An instant further back than Expired is kept as Expired: the code
\* only compares stored instants with the current one.  A tick is just
\* longer than a lease period, and the renewal interval is shorter than a
\* tick, so a live renewal timer fires within every tick.
TickSeconds == LEASE_SECONDS + 1
RenewalDueEveryTick == LEASE_RENEW_INTERVAL \div 1000 <= TickSeconds
now == 0
Expired == now - 1

\* The stuck threshold, and the number of ticks after which a stored instant
\* is further back than the threshold.
STUCK_THRESHOLD_MS == 600000
StuckTicks == STUCK_THRESHOLD_MS \div (1000 * TickSeconds) + 1

StepTypes == <<"script", "assets_visual", "assets_audio", "video", "caption">>
StepTypeSet == {StepTypes[k] : k \in 1..Len(StepTypes)}

STEP_WEIGHTS ==
    [script |-> 10, assets_visual |-> 30, assets_audio |-> 15, video |-> 40, caption |-> 5]

resumableStatuses ==
    {"queued", "running", "generating_script", "generating_assets",
     "rendering_video", "generating_caption"}
TerminalStatuses == {"completed", "failed"}

NoOwner == <<"none", 0>>
NoLease == Expired - 1

CancelledMessage == "Cancelled by user"
IntegrityMessage == "Video integrity check failed"
DEFAULT_WIDTH == 1080
DEFAULT_HEIGHT == 1920
DEFAULT_FPS == 30
DesyncMessage == "3 consecutive audio duration detection failures"

VARIABLES
    jobs,       \* table jobs: one row per job id (status "none": no row yet,
                \* "deleted": row deleted)
    jobSteps,   \* table job_steps: per job, the status of each stage's row
    assets,     \* table assets: per job, the number of rows per asset key
    settings,   \* table settings: samples behind step_avg_<type>_<stage>
    proc,       \* the memory of each worker process
    cancelReq,  \* the cancel route's handler for each job
    crashes,    \* process crashes so far
    faults,     \* failures of external calls so far
    obs         \* history of what the workers did (observations only)

vars == <<jobs, jobSteps, assets, settings, proc, cancelReq, crashes, faults, obs>>

(***************************************************************************)
(* Helpers.                                                                *)
(***************************************************************************)
Range(s) == {s[k] : k \in 1..Len(s)}
Min(a, b) == IF a <= b THEN a ELSE b
Max(a, b) == IF a >= b THEN a ELSE b

\* Math.round(num / den) for non-negative num and positive den
Round(num, den) == (2 * num + den) \div (2 * den)

StepIndex(s) == CHOOSE k \in 1..Len(StepTypes) : StepTypes[k] = s

AssetKeys ==
    {<<"image", k>> : k \in 1..MaxScenes} \cup
    {<<"audio", k>> : k \in 1..MaxScenes} \cup
    {<<"video", 0>>, <<"thumbnail", 0>>}

\* const WORKER_ID = `worker-${randomUUID().slice(0, 8)}`: a fresh identity
\* each time the process starts.
WORKER_ID(w) == <<w, proc[w].gen>>

(***************************************************************************)
(* External services, as the values they return.                           *)
(***************************************************************************)
\* buildScenes: scene k (1-based here) starts at 5*(k-1) and lasts 5 s.
buildScenes(n) ==
    [k \in 1..n |->
        [backgroundAssetUrl |-> "", audioAssetUrl |-> "",
         audioDurationSeconds |-> 0,
         startTime |-> 5 * (k - 1), endTime |-> 5 * k,
         overlayLength |-> 60 + 15 * k]]

\* getDummyScript (DUMMY_MODE): n scenes that share the target duration
\* equally.
getDummyScript(n) ==
    LET sceneDuration == targetDurationSeconds \div n IN
    [k \in 1..n |->
        [backgroundAssetUrl |-> "", audioAssetUrl |-> "",
         audioDurationSeconds |-> 0,
         startTime |-> (k - 1) * sceneDuration, endTime |-> k * sceneDuration,
         overlayLength |-> 60 + 15 * k]]

\* What generateScript may return: the script text (possibly empty) and
\* the scene list (possibly empty).
ScriptResults ==
    {[script |-> "script", scenes |-> buildScenes(n)] : n \in {0, MaxScenes}}
        \cup {[script |-> "script", scenes |-> getDummyScript(MaxScenes)]}
        \cup {[script |-> "", scenes |-> buildScenes(0)]}

\* What generateCaptionAndHashtags may return.
CaptionResults ==
    {[caption |-> "caption", hashtags |-> 1], [caption |-> "", hashtags |-> 0]}

\* The true length in seconds of the voice clip of scene k.
AudioLength(k) == 5 + 2 * k

ImageUrl(k) == "image_" \o ToString(k)
AudioUrl(k) == "audio_" \o ToString(k)

(***************************************************************************)
(* Initial state: an empty database, no process started.                   *)
(***************************************************************************)
NoJobRow ==
    [status |-> "none", progressPercent |-> 0, errorMessage |-> "",
     lockedBy |-> NoOwner, leaseExpiresAt |-> NoLease, cancelRequested |-> FALSE,
     scriptText |-> "", scenes |-> <<>>, videoUrl |-> "", durationSeconds |-> 0,
     caption |-> "", hashtags |-> 0]

\* What is left of a job after DELETE /api/jobs/:id.
DeletedRow == [NoJobRow EXCEPT !.status = "deleted"]

\* db.select().from(jobs).where(eq(jobs.id, id)) finds a row
Found(row) == row.status \notin {"none", "deleted"}

\* The locals of a processJob call, as they are when no call is in progress.
NoCall(p) ==
    [p EXCEPT !.pc = "idle", !.jobId = NoJob, !.stepType = "script", !.i = 0,
              !.leaseInterval = FALSE, !.script = "",
              !.scenes = <<>>, !.updatedScenes = <<>>, !.error = "",
              !.renderDuration = 0]

StoppedProcess(g) ==
    [alive |-> FALSE, gen |-> g, jobQueue |-> <<>>, isProcessing |-> FALSE,
     pc |-> "idle", jobId |-> NoJob, stepType |-> "script", i |-> 0,
     leaseInterval |-> FALSE, script |-> "", scenes |-> <<>>,
     updatedScenes |-> <<>>, error |-> "", renderDuration |-> 0,
     scanPc |-> "idle", scanJobs |-> <<>>,
     reqPc |-> "idle", reqJob |-> NoJob, reqStep |-> 0]

NoUnit == <<"none", 0>>
NoRun == [completedAtStart |-> {}, probes |-> <<>>]

Init ==
    /\ jobs = [j \in Jobs |-> NoJobRow]
    /\ jobSteps = [j \in Jobs |-> [s \in StepTypeSet |-> "none"]]
    /\ assets = [j \in Jobs |-> [k \in AssetKeys |-> 0]]
    /\ settings = [s \in StepTypeSet |-> 0]
    /\ proc = [w \in Workers |-> StoppedProcess(0)]
    /\ cancelReq = [j \in Jobs |-> "idle"]
    /\ crashes = 0
    /\ faults = 0
    /\ obs = [run |-> [w \in Workers |-> NoRun],
              cancelUnit |-> [w \in Workers |-> NoUnit],
              cancelDuring |-> [j \in Jobs |-> {}],
              progressAge |-> [j \in Jobs |-> 0],
              stepMessage |-> [j \in Jobs |-> [s \in StepTypeSet |-> ""]],
              resumed |-> [w \in Workers |-> {}]]

(***************************************************************************)
(* The in-memory queue and its pump.                                       *)
(***************************************************************************)
\* The while loop of processQueue at the point where it tests the queue:
\* shift the next id and call processJob (which issues acquireJobLock), or
\* leave the loop and clear isProcessing.
PumpNext(p) ==
    IF p.jobQueue # <<>>
    THEN [p EXCEPT !.jobQueue = Tail(@), !.jobId = Head(p.jobQueue), !.pc = "acquire"]
    ELSE [p EXCEPT !.isProcessing = FALSE, !.pc = "idle", !.jobId = NoJob]

\* A processQueue that does not look at isProcessing.
processQueue_NoGuard(p) == PumpNext([p EXCEPT !.isProcessing = TRUE])

processQueue(p) ==
    IF p.isProcessing THEN p ELSE PumpNext([p EXCEPT !.isProcessing = TRUE])

\* An enqueueJob that does not look for the id in the queue.
enqueueJob_NoDedup(p, jobId) ==
    processQueue([p EXCEPT !.jobQueue = Append(@, jobId)])

enqueueJob(p, jobId) ==
    processQueue([p EXCEPT !.jobQueue =
        IF jobId \in Range(@) THEN @ ELSE Append(@, jobId)])

\* processJob returns to the pump.
ProcessJobReturns(p) == PumpNext(NoCall(p))

(***************************************************************************)
(* Process start, crash, and resumeJobsOnStartup.                          *)
(***************************************************************************)
IsStale(leaseExpiresAt, t) == leaseExpiresAt # NoLease /\ leaseExpiresAt < t

\* The body of the for loop of resumeJobsOnStartup, run until it awaits the
\* clearing update of a stale lease or the list is exhausted.
RECURSIVE resumeLoop(_, _)
resumeLoop(p, t) ==
    IF p.scanJobs = <<>>
    THEN [p EXCEPT !.scanPc = "idle"]
    ELSE LET job == Head(p.scanJobs) IN
         IF IsStale(job.leaseExpiresAt, t)
         THEN [p EXCEPT !.scanPc = "clearLease"]
         ELSE resumeLoop(enqueueJob([p EXCEPT !.scanJobs = Tail(@)], job.id), t)

StartProcess(w) ==
    /\ ~proc[w].alive
    /\ proc' = [proc EXCEPT ![w] =
           [StoppedProcess(proc[w].gen + 1) EXCEPT !.alive = TRUE, !.scanPc = "getJobs"]]
    /\ UNCHANGED <<jobs, jobSteps, assets, settings, cancelReq, crashes, faults, obs>>

getJobsByStatuses(statuses) ==
    LET ids == SelectSeq(JobOrder,
                   LAMBDA j : j \in DOMAIN jobs /\ jobs[j].status \in statuses)
    IN [k \in 1..Len(ids) |-> [id |-> ids[k], leaseExpiresAt |-> jobs[ids[k]].leaseExpiresAt]]

ResumeJobsOnStartup_Scan(w) ==
    /\ proc[w].alive /\ proc[w].scanPc = "getJobs"
    /\ LET found == getJobsByStatuses(resumableStatuses)
           p == resumeLoop([proc[w] EXCEPT !.scanJobs = found], now)
       IN /\ proc' = [proc EXCEPT ![w] = p]
          /\ obs' = [obs EXCEPT !.resumed[w] = @ \cup
                        {found[k].id : k \in 1..(Len(found) - Len(p.scanJobs))}]
    /\ UNCHANGED <<jobs, jobSteps, assets, settings, cancelReq, crashes, faults>>

ClearedLease(row) == [row EXCEPT !.lockedBy = NoOwner, !.leaseExpiresAt = NoLease]

ResumeJobsOnStartup_ClearLease(w) ==
    /\ proc[w].alive /\ proc[w].scanPc = "clearLease"
    /\ LET job == Head(proc[w].scanJobs)
           p == resumeLoop(enqueueJob([proc[w] EXCEPT !.scanJobs = Tail(@)], job.id), now)
       IN /\ jobs' = [jobs EXCEPT ![job.id] =
                 IF Found(@) THEN ClearedLease(@) ELSE @]
          /\ proc' = [proc EXCEPT ![w] = p]
          /\ obs' = [obs EXCEPT !.resumed[w] = @ \cup
                        {proc[w].scanJobs[k].id :
                            k \in 1..(Len(proc[w].scanJobs) - Len(p.scanJobs))}]
    /\ UNCHANGED <<jobSteps, assets, settings, cancelReq, crashes, faults>>

Crash(w) ==
    /\ proc[w].alive
    /\ crashes < MaxCrashes
    /\ crashes' = crashes + 1
    /\ proc' = [proc EXCEPT ![w] = StoppedProcess(proc[w].gen)]
    /\ obs' = [obs EXCEPT !.run[w] = NoRun, !.cancelUnit[w] = NoUnit, !.resumed[w] = {}]
    /\ UNCHANGED <<jobs, jobSteps, assets, settings, cancelReq, faults>>

(***************************************************************************)
(* POST /api/jobs: createJob, initializeJobSteps, enqueueJob.              *)
(***************************************************************************)
CreateJob(w, j) ==
    /\ proc[w].alive /\ proc[w].reqPc = "idle"
    /\ jobs[j].status = "none"
    /\ \A v \in Workers : proc[v].reqJob # j
    /\ jobs' = [jobs EXCEPT ![j] = [NoJobRow EXCEPT !.status = "queued"]]
    /\ proc' = [proc EXCEPT ![w].reqPc = "getJobSteps", ![w].reqJob = j]
    /\ UNCHANGED <<jobSteps, assets, settings, cancelReq, crashes, faults, obs>>

\* initializeJobSteps: nothing to do when steps exist; otherwise the five
\* inserts follow one by one.
InitializeJobSteps_Check(w) ==
    /\ proc[w].alive /\ proc[w].reqPc = "getJobSteps"
    /\ LET j == proc[w].reqJob IN
       IF \E s \in StepTypeSet : jobSteps[j][s] # "none"
       THEN proc' = [proc EXCEPT ![w] =
                enqueueJob([@ EXCEPT !.reqPc = "idle", !.reqJob = NoJob], j)]
       ELSE proc' = [proc EXCEPT ![w].reqPc = "createJobStep", ![w].reqStep = 1]
    /\ UNCHANGED <<jobs, jobSteps, assets, settings, cancelReq, crashes, faults, obs>>

InitializeJobSteps_Create(w) ==
    /\ proc[w].alive /\ proc[w].reqPc = "createJobStep"
    /\ LET j == proc[w].reqJob
           k == proc[w].reqStep
       IN /\ jobSteps' = [jobSteps EXCEPT ![j][StepTypes[k]] = "queued"]
          /\ proc' = [proc EXCEPT ![w] =
                IF k < Len(StepTypes)
                THEN [@ EXCEPT !.reqStep = k + 1]
                ELSE enqueueJob([@ EXCEPT !.reqPc = "idle", !.reqJob = NoJob,
                                          !.reqStep = 0], j)]
    /\ UNCHANGED <<jobs, assets, settings, cancelReq, crashes, faults, obs>>

(***************************************************************************)
(* POST /api/jobs/:id/cancel.                                              *)
(***************************************************************************)
\* A cancel route that rejects nothing.
CancelRejected_Never(row) == FALSE

\* if (job.status === 'completed' || job.status === 'failed') return 400
CancelRejected(row) == row.status \in TerminalStatuses

\* getJob and the tests on it; a request that gets 404 or 400 ends here and
\* has changed nothing.
CancelRoute_Check(j) ==
    /\ cancelReq[j] = "idle"
    /\ Found(jobs[j]) /\ ~CancelRejected(jobs[j])
    /\ ~jobs[j].cancelRequested
    /\ cancelReq' = [cancelReq EXCEPT ![j] = "update"]
    /\ UNCHANGED <<jobs, jobSteps, assets, settings, proc, crashes, faults, obs>>

\* The unit of work a processJob call is in: the stage (and, inside a scene
\* loop, the scene) whose cancellation check it has passed; none while it
\* is about to make a cancellation check or is outside the stages.
StagePcs ==
    {"stepRunning", "generateScript", "visualFinal", "reconcile", "renderVideo",
     "videoProgress", "generateCaption", "stepCompleted", "stepFailed"}
ScenePcs == {"generateImage", "visualProgress", "generateSpeech", "audioProgress"}
CallPcs == {"generateScript", "generateImage", "generateSpeech", "renderVideo",
            "generateCaption"}
InProcessJobPcs ==
    {"start", "runStep", "visualScene", "audioScene", "markCompleted", "markFailed"}
        \cup StagePcs \cup ScenePcs

Unit(p) ==
    IF p.pc \in ScenePcs THEN <<p.stepType, p.i>>
    ELSE IF p.pc \in StagePcs THEN <<p.stepType, 0>>
    ELSE NoUnit

\* The process is inside a stage function that has not thrown.
InStage(p) ==
    p.pc \in (StagePcs \cup ScenePcs \cup {"visualScene", "audioScene"}) \ {"stepFailed"}

CancelRoute_Update(j) ==
    /\ cancelReq[j] = "update"
    /\ cancelReq' = [cancelReq EXCEPT ![j] = "idle"]
    /\ jobs' = [jobs EXCEPT ![j].cancelRequested = TRUE]
    /\ obs' = [obs EXCEPT
           !.cancelUnit = [w \in Workers |->
               IF proc[w].alive /\ proc[w].jobId = j THEN Unit(proc[w]) ELSE NoUnit],
           !.cancelDuring[j] =
               IF jobs[j].status \in TerminalStatuses THEN {}
               ELSE {w \in Workers : proc[w].alive /\ proc[w].jobId = j
                                        /\ InStage(proc[w])}]
    /\ UNCHANGED <<jobSteps, assets, settings, proc, crashes, faults>>

(***************************************************************************)
(* DELETE /api/jobs/:id.                                                   *)
(***************************************************************************)
\* deleteJob removes the row; its job_steps and assets go with it
\* (onDelete: 'cascade').
DeleteJob(j) ==
    /\ Found(jobs[j])
    /\ jobs' = [jobs EXCEPT ![j] = DeletedRow]
    /\ jobSteps' = [jobSteps EXCEPT ![j] = [s \in StepTypeSet |-> "none"]]
    /\ assets' = [assets EXCEPT ![j] = [k \in AssetKeys |-> 0]]
    /\ UNCHANGED <<settings, proc, cancelReq, crashes, faults, obs>>

(***************************************************************************)
(* Lease manager (storage.acquireJobLock, renewJobLease, releaseJobLock).  *)
(***************************************************************************)
\* An acquire that takes no account of whether the lease has expired.
LeaseAvailable_IgnoringExpiry(row, t) ==
    row.lockedBy = NoOwner \/ row.leaseExpiresAt = NoLease
        \/ row.leaseExpiresAt < t + LEASE_SECONDS + 1

\* acquire succeeds only if no lease exists or the existing lease has expired
LeaseAvailable(row, t) ==
    row.lockedBy = NoOwner \/ row.leaseExpiresAt = NoLease \/ row.leaseExpiresAt < t

acquireJobLock(row, owner, t) ==
    IF Found(row) /\ LeaseAvailable(row, t)
    THEN [ok |-> TRUE,
          row |-> [row EXCEPT !.lockedBy = owner, !.leaseExpiresAt = t + LEASE_SECONDS]]
    ELSE [ok |-> FALSE, row |-> row]

\* renew succeeds only if the caller is still the recorded owner
renewJobLease(row, owner, t) ==
    IF Found(row) /\ row.lockedBy = owner
    THEN [ok |-> TRUE, row |-> [row EXCEPT !.leaseExpiresAt = t + LEASE_SECONDS]]
    ELSE [ok |-> FALSE, row |-> row]

\* A release that leaves the row as it is.
releaseJobLock_Nothing(row, owner) == row

\* release clears the lease unconditionally
releaseJobLock(row, owner) == ClearedLease(row)

\* The setInterval callback of the processJob call of worker w: renew, and
\* stop the timer when the renewal is refused.
RenewLease(w) ==
    LET renewed == renewJobLease(jobs[proc[w].jobId], WORKER_ID(w), now)
    IN [row |-> renewed.row,
        proc |-> IF renewed.ok THEN proc[w] ELSE [proc[w] EXCEPT !.leaseInterval = FALSE]]

Renewing(w, j) == proc[w].alive /\ proc[w].leaseInterval /\ proc[w].jobId = j

\* Time passes by one tick.  The renewal timers of the live processJob
\* calls fire within it; every other stored instant moves into the past.
TickRows ==
    /\ jobs' = [j \in Jobs |->
           IF RenewalDueEveryTick
                 /\ \E w \in Workers :
                        Renewing(w, j) /\ RenewLease(w).row.leaseExpiresAt = now + LEASE_SECONDS
                                       /\ RenewLease(w).proc.leaseInterval
           THEN [jobs[j] EXCEPT !.leaseExpiresAt = now + LEASE_SECONDS]
           ELSE IF jobs[j].leaseExpiresAt = NoLease THEN jobs[j]
           ELSE [jobs[j] EXCEPT !.leaseExpiresAt = Max(@ - TickSeconds, Expired)]]
    /\ proc' = [w \in Workers |->
           IF RenewalDueEveryTick /\ proc[w].alive /\ proc[w].leaseInterval
           THEN RenewLease(w).proc
           ELSE proc[w]]

Tick ==
    /\ TickRows
    /\ UNCHANGED <<jobSteps, assets, settings, cancelReq, crashes, faults, obs>>

\* A tick under which the age of lastProgressAt is kept as well, in ticks and
\* up to StuckTicks, for the jobs that are not in a terminal status.
TickProgress ==
    /\ TickRows
    /\ obs' = [obs EXCEPT !.progressAge =
           [j \in Jobs |->
               IF Found(jobs[j]) /\ jobs[j].status \in resumableStatuses
               THEN Min(obs.progressAge[j] + 1, StuckTicks)
               ELSE obs.progressAge[j]]]
    /\ UNCHANGED <<jobSteps, assets, settings, cancelReq, crashes, faults>>

(***************************************************************************)
(* processJob.                                                             *)
(***************************************************************************)
At(w, pc) == proc[w].alive /\ proc[w].pc = pc

\* storage.updateLastProgress(jobId): lastProgressAt becomes the current
\* instant.  The code never reads the column; obs.progressAge keeps its age.
updateLastProgress(j) == [obs EXCEPT !.progressAge[j] = 0]

\* A processJob that takes the refused acquire through its finally block.
ProcessJob_Acquire_InsideTry(w) ==
    /\ At(w, "acquire")
    /\ LET j == proc[w].jobId
           r == acquireJobLock(jobs[j], WORKER_ID(w), now)
       IN IF r.ok
          THEN /\ jobs' = [jobs EXCEPT ![j] = r.row]
               /\ proc' = [proc EXCEPT ![w] =
                      [@ EXCEPT !.pc = "start", !.leaseInterval = TRUE]]
               /\ obs' = [obs EXCEPT !.run[w] =
                      [NoRun EXCEPT !.completedAtStart =
                          {s \in StepTypeSet : jobSteps[j][s] = "completed"}]]
          ELSE /\ jobs' = [jobs EXCEPT ![j] = releaseJobLock(@, WORKER_ID(w))]
               /\ proc' = [proc EXCEPT ![w] = ProcessJobReturns(@)]
               /\ UNCHANGED obs
    /\ UNCHANGED <<jobSteps, assets, settings, cancelReq, crashes, faults>>

ProcessJob_Acquire(w) ==
    /\ At(w, "acquire")
    /\ LET j == proc[w].jobId
           r == acquireJobLock(jobs[j], WORKER_ID(w), now)
       IN IF r.ok
          THEN /\ jobs' = [jobs EXCEPT ![j] = r.row]
               /\ proc' = [proc EXCEPT ![w] =
                      [@ EXCEPT !.pc = "start", !.leaseInterval = TRUE]]
               /\ obs' = [obs EXCEPT !.run[w] =
                      [NoRun EXCEPT !.completedAtStart =
                          {s \in StepTypeSet : jobSteps[j][s] = "completed"}]]
          ELSE /\ proc' = [proc EXCEPT ![w] = ProcessJobReturns(@)]
               /\ UNCHANGED <<jobs, obs>>
    /\ UNCHANGED <<jobSteps, assets, settings, cancelReq, crashes, faults>>

\* getJob: when the job is not found processJob returns (through finally);
\* otherwise updateJob(status running, progressPercent 0) and
\* updateLastProgress
ProcessJob_Start(w) ==
    /\ At(w, "start")
    /\ LET j == proc[w].jobId IN
       IF Found(jobs[j])
       THEN /\ jobs' = [jobs EXCEPT ![j] =
                   [@ EXCEPT !.status = "running", !.progressPercent = 0]]
            /\ proc' = [proc EXCEPT ![w] = [@ EXCEPT !.pc = "runStep", !.stepType = "script"]]
            /\ obs' = updateLastProgress(j)
       ELSE /\ proc' = [proc EXCEPT ![w] = [@ EXCEPT !.pc = "release", !.leaseInterval = FALSE]]
            /\ UNCHANGED <<jobs, obs>>
    /\ UNCHANGED <<jobSteps, assets, settings, cancelReq, crashes, faults>>

\* A cancellation check that never sees the request.
isCancelled_Never(j) == FALSE

isCancelled(j) == jobs[j].cancelRequested

\* After runStep returns: the cancellation check of the next stage, or the
\* completion write after the last one.
NextStage(p) ==
    IF StepIndex(p.stepType) < Len(StepTypes)
    THEN [p EXCEPT !.pc = "runStep", !.stepType = StepTypes[StepIndex(p.stepType) + 1],
                   !.i = 0, !.updatedScenes = <<>>]
    ELSE [p EXCEPT !.pc = "markCompleted", !.i = 0, !.updatedScenes = <<>>]

\* A runStep that only skips a step without a row.
StepSkipped_OnlyMissing(status) == status = "none"

\* runStep skips a step that is completed (or has no row)
StepSkipped(status) == status \in {"none", "completed"}

\* if (await isCancelled(jobId)) throw ...; then runStep loads the step
RunStep_Enter(w) ==
    /\ At(w, "runStep")
    /\ LET j == proc[w].jobId
           s == proc[w].stepType
       IN proc' = [proc EXCEPT ![w] =
              IF isCancelled(j)
              THEN [@ EXCEPT !.pc = "markFailed", !.error = CancelledMessage]
              ELSE IF StepSkipped(jobSteps[j][s])
              THEN NextStage(@)
              ELSE [@ EXCEPT !.pc = "stepRunning"]]
    /\ UNCHANGED <<jobs, jobSteps, assets, settings, cancelReq, crashes, faults, obs>>

\* The scene list a stage works on: the stored one when there is one,
\* otherwise what this run holds in context.scenes.
FreshScenes(j, p) == IF jobs[j].scenes # <<>> THEN jobs[j].scenes ELSE p.scenes

MarkRunning(w) ==
    jobSteps' = [jobSteps EXCEPT ![proc[w].jobId][proc[w].stepType] = "running"]

\* An error thrown without a message.
Throw_NoMessage(p, message) == [p EXCEPT !.pc = "stepFailed", !.error = ""]

Throw(p, message) == [p EXCEPT !.pc = "stepFailed", !.error = message]

\* An external call (generator, encoder, probe) fails only while the bound
\* on failures allows it.
ExternalCall(failures) ==
    /\ faults + failures <= MaxFaults
    /\ faults' = faults + failures

(***************************************************************************)
(* Step 1: script.                                                         *)
(***************************************************************************)
RunStep_Script(w) ==
    /\ At(w, "stepRunning") /\ proc[w].stepType = "script"
    /\ MarkRunning(w)
    /\ proc' = [proc EXCEPT ![w].pc = "generateScript"]
    /\ UNCHANGED <<jobs, assets, settings, cancelReq, crashes, faults, obs>>

\* generateScript returns (or raises); the result goes to the context and
\* to the job row.
GenerateScript(w) ==
    /\ At(w, "generateScript")
    /\ \E ok \in BOOLEAN, r \in ScriptResults :
          LET j == proc[w].jobId IN
          /\ ExternalCall(IF ok THEN 0 ELSE 1)
          /\ IF ok
             THEN /\ jobs' = [jobs EXCEPT ![j] =
                         [@ EXCEPT !.status = "generating_script",
                                   !.scriptText = r.script, !.scenes = r.scenes,
                                   !.progressPercent = STEP_WEIGHTS.script]]
                  /\ proc' = [proc EXCEPT ![w] =
                         [@ EXCEPT !.script = r.script, !.scenes = r.scenes,
                                   !.pc = "stepCompleted"]]
                  /\ obs' = updateLastProgress(j)
             ELSE /\ proc' = [proc EXCEPT ![w] = Throw(@, "script generation failed")]
                  /\ UNCHANGED <<jobs, obs>>
    /\ UNCHANGED <<jobSteps, assets, settings, cancelReq, crashes>>

(***************************************************************************)
(* Step 2: visual assets.                                                  *)
(***************************************************************************)
RunStep_Visual(w) ==
    /\ At(w, "stepRunning") /\ proc[w].stepType = "assets_visual"
    /\ MarkRunning(w)
    /\ LET j == proc[w].jobId
           fresh == FreshScenes(j, proc[w])
       IN /\ jobs' = [jobs EXCEPT ![j].status = "generating_assets"]
          /\ proc' = [proc EXCEPT ![w] =
                IF Len(fresh) > 0
                THEN [@ EXCEPT !.scenes = fresh, !.updatedScenes = fresh, !.i = 1,
                               !.pc = "visualScene"]
                ELSE [@ EXCEPT !.scenes = fresh, !.pc = "stepCompleted"]]
    /\ UNCHANGED <<assets, settings, cancelReq, crashes, faults, obs>>

\* A scene loop that takes no scene as done.
SceneDone_Never(url) == FALSE

\* if (scene.backgroundAssetUrl) continue; if (scene.audioAssetUrl) continue
SceneDone(url) == url # ""

\* for (i ...): the step to the next scene, or past the loop
NextScene(p, scenePc, afterPc) ==
    IF p.i < Len(p.updatedScenes)
    THEN [p EXCEPT !.i = p.i + 1, !.pc = scenePc]
    ELSE [p EXCEPT !.pc = afterPc]

\* Top of the scene loop: cancellation check, skip of a scene that has its
\* image, otherwise generateImagePrompt is issued.
VisualScene(w) ==
    /\ At(w, "visualScene")
    /\ LET j == proc[w].jobId
           scene == proc[w].updatedScenes[proc[w].i]
       IN proc' = [proc EXCEPT ![w] =
              IF isCancelled(j) THEN Throw(@, CancelledMessage)
              ELSE IF SceneDone(scene.backgroundAssetUrl)
              THEN NextScene(@, "visualScene", "visualFinal")
              ELSE [@ EXCEPT !.pc = "generateImage"]]
    /\ UNCHANGED <<jobs, jobSteps, assets, settings, cancelReq, crashes, faults, obs>>

\* generateImagePrompt returns; getAssetByPath; generateImage, upload and
\* createAsset when no asset is stored under the hashed path.
GenerateImage(w) ==
    /\ At(w, "generateImage")
    /\ \E outcome \in {"promptError", "imageError", "ok"} :
          LET j == proc[w].jobId
              i == proc[w].i
              existingAsset == assets[j][<<"image", i>>] > 0
          IN IF outcome = "promptError"
             THEN /\ ExternalCall(1)
                  /\ proc' = [proc EXCEPT ![w] = Throw(@, "image prompt generation failed")]
                  /\ UNCHANGED assets
             ELSE IF existingAsset \/ outcome = "ok"
             THEN /\ ExternalCall(0)
                  /\ proc' = [proc EXCEPT ![w] =
                         [@ EXCEPT !.updatedScenes[i].backgroundAssetUrl = ImageUrl(i),
                                   !.pc = "visualProgress"]]
                  /\ assets' = IF existingAsset THEN assets
                               ELSE [assets EXCEPT ![j][<<"image", i>>] = @ + 1]
             ELSE /\ ExternalCall(1)
                  /\ proc' = [proc EXCEPT ![w] =
                         [@ EXCEPT !.updatedScenes[i].backgroundAssetUrl = "",
                                   !.pc = "visualProgress"]]
                  /\ UNCHANGED assets
    /\ UNCHANGED <<jobs, jobSteps, settings, cancelReq, crashes, obs>>

visualProgress(i, n) ==
    Round(STEP_WEIGHTS.script * n + STEP_WEIGHTS.assets_visual * i, n)

VisualProgress(w) ==
    /\ At(w, "visualProgress")
    /\ LET j == proc[w].jobId
           p == proc[w]
       IN /\ jobs' = [jobs EXCEPT ![j] =
                 [@ EXCEPT !.progressPercent = visualProgress(p.i, Len(p.updatedScenes)),
                           !.scenes = p.updatedScenes]]
          /\ proc' = [proc EXCEPT ![w] = NextScene(@, "visualScene", "visualFinal")]
          /\ obs' = updateLastProgress(j)
    /\ UNCHANGED <<jobSteps, assets, settings, cancelReq, crashes, faults>>

VisualFinal(w) ==
    /\ At(w, "visualFinal")
    /\ jobs' = [jobs EXCEPT ![proc[w].jobId].scenes = proc[w].updatedScenes]
    /\ proc' = [proc EXCEPT ![w] =
           [@ EXCEPT !.scenes = proc[w].updatedScenes, !.pc = "stepCompleted"]]
    /\ UNCHANGED <<jobSteps, assets, settings, cancelReq, crashes, faults, obs>>

(***************************************************************************)
(* Step 3: audio assets and duration reconciliation.                       *)
(***************************************************************************)
RunStep_Audio(w) ==
    /\ At(w, "stepRunning") /\ proc[w].stepType = "assets_audio"
    /\ MarkRunning(w)
    /\ LET j == proc[w].jobId
           fresh == FreshScenes(j, proc[w])
       IN /\ jobs' = [jobs EXCEPT ![j].status = "generating_assets"]
          /\ proc' = [proc EXCEPT ![w] =
                IF proc[w].script # "" /\ Len(fresh) > 0
                THEN [@ EXCEPT !.scenes = fresh, !.updatedScenes = fresh, !.i = 1,
                               !.pc = "audioScene"]
                ELSE [@ EXCEPT !.scenes = fresh, !.pc = "stepCompleted"]]
    /\ UNCHANGED <<assets, settings, cancelReq, crashes, faults, obs>>

AudioScene(w) ==
    /\ At(w, "audioScene")
    /\ LET j == proc[w].jobId
           scene == proc[w].updatedScenes[proc[w].i]
       IN proc' = [proc EXCEPT ![w] =
              IF isCancelled(j) THEN Throw(@, CancelledMessage)
              ELSE IF SceneDone(scene.audioAssetUrl)
              THEN NextScene(@, "audioScene", "reconcile")
              ELSE [@ EXCEPT !.pc = "generateSpeech"]]
    /\ UNCHANGED <<jobs, jobSteps, assets, settings, cancelReq, crashes, faults, obs>>

\* getAssetByPath; generateSpeech, upload and createAsset when no asset is
\* stored under the hashed path.  A failed generation leaves the scene
\* without audio.
GenerateSpeech(w) ==
    /\ At(w, "generateSpeech")
    /\ \E ok \in BOOLEAN :
          LET j == proc[w].jobId
              i == proc[w].i
              existingAsset == assets[j][<<"audio", i>>] > 0
          IN IF existingAsset \/ ok
             THEN /\ ExternalCall(0)
                  /\ proc' = [proc EXCEPT ![w] =
                         [@ EXCEPT !.updatedScenes[i].audioAssetUrl = AudioUrl(i),
                                   !.pc = "audioProgress"]]
                  /\ assets' = IF existingAsset THEN assets
                               ELSE [assets EXCEPT ![j][<<"audio", i>>] = @ + 1]
             ELSE /\ ExternalCall(1)
                  /\ proc' = [proc EXCEPT ![w].pc = "audioProgress"]
                  /\ UNCHANGED assets
    /\ UNCHANGED <<jobs, jobSteps, settings, cancelReq, crashes, obs>>

audioProgress(i, n) ==
    Round((STEP_WEIGHTS.script + STEP_WEIGHTS.assets_visual) * n
              + STEP_WEIGHTS.assets_audio * i, n)

AudioProgress(w) ==
    /\ At(w, "audioProgress")
    /\ LET j == proc[w].jobId
           p == proc[w]
       IN /\ jobs' = [jobs EXCEPT ![j] =
                 [@ EXCEPT !.progressPercent = audioProgress(p.i, Len(p.updatedScenes)),
                           !.scenes = p.updatedScenes]]
          /\ proc' = [proc EXCEPT ![w] = NextScene(@, "audioScene", "reconcile")]
          /\ obs' = updateLastProgress(j)
    /\ UNCHANGED <<jobSteps, assets, settings, cancelReq, crashes, faults>>

\* Math.max(3, Math.min(10, (scene.textOverlay?.length || 50) / 15)), in
\* whole seconds
EstimatedDuration(scene) ==
    Max(3, Min(10, (IF scene.overlayLength # 0 THEN scene.overlayLength ELSE 50) \div 15))

\* The second loop of the audio stage from scene k on: probes[k] tells
\* whether getAudioDuration succeeds for scene k.
RECURSIVE reconcileFrom(_, _, _, _, _)
reconcileFrom(scenes, probes, k, currentTime, consecutiveFailures) ==
    IF k > Len(scenes) THEN [ok |-> TRUE, scenes |-> scenes]
    ELSE LET scene == scenes[k]
             hasAudio == scene.audioAssetUrl # ""
             failures == IF ~hasAudio THEN consecutiveFailures
                         ELSE IF probes[k] THEN 0 ELSE consecutiveFailures + 1
         IN IF hasAudio /\ ~probes[k] /\ failures >= MAX_CONSECUTIVE_FAILURES
            THEN [ok |-> FALSE, scenes |-> scenes]
            ELSE LET audioDurationSeconds ==
                         IF ~hasAudio THEN 3
                         ELSE IF probes[k] THEN AudioLength(k)
                         ELSE EstimatedDuration(scene)
                     duration == IF audioDurationSeconds # 0 THEN audioDurationSeconds ELSE 5
                 IN reconcileFrom(
                        [scenes EXCEPT ![k] =
                            [@ EXCEPT !.audioDurationSeconds = audioDurationSeconds,
                                      !.startTime = currentTime,
                                      !.endTime = currentTime + duration]],
                        probes, k + 1, currentTime + duration, failures)

\* The scenes whose probe fails; only a scene with audio is probed.
FailedProbes(scenes, probes) == {k \in DOMAIN scenes : ~probes[k]}
Probed(scenes, probes) ==
    \A k \in FailedProbes(scenes, probes) : scenes[k].audioAssetUrl # ""

\* The loop run on the probe outcomes: the timings are stored, or the
\* error is thrown.  obs.run keeps the outcomes of the probes.
ReconcileWith(w, probes) ==
    LET j == proc[w].jobId
        r == reconcileFrom(proc[w].updatedScenes, probes, 1, 0, 0)
    IN /\ Probed(proc[w].updatedScenes, probes)
       /\ obs' = [obs EXCEPT !.run[w].probes = probes]
       /\ IF r.ok
          THEN /\ jobs' = [jobs EXCEPT ![j].scenes = r.scenes]
               /\ proc' = [proc EXCEPT ![w] =
                      [@ EXCEPT !.scenes = r.scenes, !.updatedScenes = r.scenes,
                                !.pc = "stepCompleted"]]
          ELSE /\ proc' = [proc EXCEPT ![w] = Throw(@, DesyncMessage)]
               /\ UNCHANGED jobs
       /\ UNCHANGED <<jobSteps, assets, settings, cancelReq, crashes>>

Reconcile(w) ==
    /\ At(w, "reconcile")
    /\ \E probes \in [1..Len(proc[w].updatedScenes) -> BOOLEAN] :
          /\ ExternalCall(Cardinality(FailedProbes(proc[w].updatedScenes, probes)))
          /\ ReconcileWith(w, probes)

\* The same with any number of failing probes.
ReconcileAnyProbes(w) ==
    /\ At(w, "reconcile")
    /\ \E probes \in [1..Len(proc[w].updatedScenes) -> BOOLEAN] :
          /\ UNCHANGED faults
          /\ ReconcileWith(w, probes)

(***************************************************************************)
(* Step 4: video.                                                          *)
(***************************************************************************)
RunStep_Video(w) ==
    /\ At(w, "stepRunning") /\ proc[w].stepType = "video"
    /\ MarkRunning(w)
    /\ LET j == proc[w].jobId
           fresh == FreshScenes(j, proc[w])
       IN /\ jobs' = [jobs EXCEPT ![j].status = "rendering_video"]
          /\ proc' = [proc EXCEPT ![w] =
                IF Len(fresh) > 0
                THEN [@ EXCEPT !.scenes = fresh, !.pc = "renderVideo"]
                ELSE [@ EXCEPT !.scenes = fresh, !.pc = "stepCompleted"]]
    /\ UNCHANGED <<assets, settings, cancelReq, crashes, faults, obs>>

\* renderVideo: sceneDurations = audioDurationSeconds || 5, summed
RECURSIVE totalDuration(_)
totalDuration(scenes) ==
    IF scenes = <<>> THEN 0
    ELSE (IF Head(scenes).audioDurationSeconds # 0
          THEN Head(scenes).audioDurationSeconds ELSE 5) + totalDuration(Tail(scenes))

\* checkVideoIntegrity: ffprobe must exit with code 0 and print JSON that
\* parses, the duration must be positive, stat must succeed and the file
\* must have at least 10000 bytes.  hasAudio, width and height are read
\* from the streams and returned with a valid result.
checkVideoIntegrity(probe) ==
    IF ~probe.ffprobeOk THEN [valid |-> FALSE]
    ELSE IF ~probe.parseOk THEN [valid |-> FALSE]
    ELSE IF probe.duration <= 0 THEN [valid |-> FALSE]
    ELSE IF ~probe.statOk THEN [valid |-> FALSE]
    ELSE IF probe.size < 10000 THEN [valid |-> FALSE]
    ELSE [valid |-> TRUE, duration |-> probe.duration, hasAudio |-> probe.hasAudio,
          width |-> probe.width, height |-> probe.height]

\* What ffprobe and stat may report of an output file: the streams found
\* (a missing video stream has width and height 0), the duration, the size.
IntegrityProbes ==
    {[ffprobeOk |-> f, parseOk |-> p, duration |-> d, hasAudio |-> a,
      width |-> wh[1], height |-> wh[2], statOk |-> t, size |-> z] :
        f \in BOOLEAN, p \in BOOLEAN, d \in {0, 1}, a \in BOOLEAN,
        wh \in {<<0, 0>>, <<DEFAULT_WIDTH, DEFAULT_HEIGHT>>, <<720, 1280>>},
        t \in BOOLEAN, z \in {9999, 10000}}

\* The reports of an output that carries the expected streams.
OutputProbes ==
    {probe \in IntegrityProbes :
        /\ probe.parseOk /\ probe.statOk /\ probe.hasAudio
        /\ probe.width = DEFAULT_WIDTH /\ probe.height = DEFAULT_HEIGHT}

\* renderVideo returns (or raises); the worker checks result.integrityCheck
\* and only then records the video and thumbnail assets.
RenderVideo(w) ==
    /\ At(w, "renderVideo")
    /\ \E encoderOk \in BOOLEAN, probe \in OutputProbes :
          LET j == proc[w].jobId
              integrity == checkVideoIntegrity(probe)
          IN IF ~encoderOk
             THEN /\ ExternalCall(1)
                  /\ proc' = [proc EXCEPT ![w] = Throw(@, "ffmpeg exited with an error")]
                  /\ UNCHANGED assets
             ELSE IF ~integrity.valid
             THEN /\ ExternalCall(1)
                  /\ proc' = [proc EXCEPT ![w] = Throw(@, IntegrityMessage)]
                  /\ UNCHANGED assets
             ELSE /\ ExternalCall(0)
                  /\ assets' = [assets EXCEPT ![j][<<"video", 0>>] = @ + 1,
                                             ![j][<<"thumbnail", 0>>] = @ + 1]
                  /\ proc' = [proc EXCEPT ![w] =
                         [@ EXCEPT !.renderDuration = totalDuration(proc[w].scenes),
                                   !.pc = "videoProgress"]]
    /\ UNCHANGED <<jobs, jobSteps, settings, cancelReq, crashes, obs>>

videoProgress ==
    STEP_WEIGHTS.script + STEP_WEIGHTS.assets_visual + STEP_WEIGHTS.assets_audio
        + STEP_WEIGHTS.video

VideoProgress(w) ==
    /\ At(w, "videoProgress")
    /\ jobs' = [jobs EXCEPT ![proc[w].jobId] =
           [@ EXCEPT !.progressPercent = videoProgress,
                     !.durationSeconds = proc[w].renderDuration,
                     !.videoUrl = "final.mp4"]]
    /\ proc' = [proc EXCEPT ![w].pc = "stepCompleted"]
    /\ obs' = updateLastProgress(proc[w].jobId)
    /\ UNCHANGED <<jobSteps, assets, settings, cancelReq, crashes, faults>>

(***************************************************************************)
(* Step 5: caption.                                                        *)
(***************************************************************************)
RunStep_Caption(w) ==
    /\ At(w, "stepRunning") /\ proc[w].stepType = "caption"
    /\ MarkRunning(w)
    /\ LET j == proc[w].jobId
           script == IF jobs[j].scriptText # "" THEN jobs[j].scriptText ELSE proc[w].script
       IN /\ jobs' = [jobs EXCEPT ![j].status = "generating_caption"]
          /\ proc' = [proc EXCEPT ![w].pc =
                IF script # "" THEN "generateCaption" ELSE "stepCompleted"]
    /\ UNCHANGED <<assets, settings, cancelReq, crashes, faults, obs>>

GenerateCaption(w) ==
    /\ At(w, "generateCaption")
    /\ \E ok \in BOOLEAN, r \in CaptionResults :
          /\ ExternalCall(IF ok THEN 0 ELSE 1)
          /\ IF ok
             THEN /\ jobs' = [jobs EXCEPT ![proc[w].jobId] =
                         [@ EXCEPT !.caption = r.caption, !.hashtags = r.hashtags,
                                   !.progressPercent = 100]]
                  /\ proc' = [proc EXCEPT ![w].pc = "stepCompleted"]
                  /\ obs' = updateLastProgress(proc[w].jobId)
             ELSE /\ proc' = [proc EXCEPT ![w] = Throw(@, "caption generation failed")]
                  /\ UNCHANGED <<jobs, obs>>
    /\ UNCHANGED <<jobSteps, assets, settings, cancelReq, crashes>>

(***************************************************************************)
(* runStep's tail and processJob's exits.                                  *)
(***************************************************************************)
\* updateJobStep(completed), then saveStepTiming, which is still inside
\* runStep's try: when it raises, runStep's catch is next.
RunStep_Completed(w) ==
    /\ At(w, "stepCompleted")
    /\ jobSteps' = [jobSteps EXCEPT ![proc[w].jobId][proc[w].stepType] = "completed"]
    /\ \E ok \in BOOLEAN :
          /\ ExternalCall(IF ok THEN 0 ELSE 1)
          /\ IF ok
             THEN /\ settings' = [settings EXCEPT ![proc[w].stepType] = @ + 1]
                  /\ proc' = [proc EXCEPT ![w] = NextStage(@)]
             ELSE /\ proc' = [proc EXCEPT ![w] = Throw(@, "settings store failed")]
                  /\ UNCHANGED settings
    /\ UNCHANGED <<jobs, assets, cancelReq, crashes, obs>>

\* updateJobStep(failed, message), then the error is thrown on
\* runStep's catch: updateJobStep(failed, message), then the error is thrown
\* on to processJob's catch.  The code never reads the message of a step;
\* obs.stepMessage keeps what was written.
RunStep_Failed(w) ==
    /\ At(w, "stepFailed")
    /\ jobSteps' = [jobSteps EXCEPT ![proc[w].jobId][proc[w].stepType] = "failed"]
    /\ obs' = [obs EXCEPT !.stepMessage[proc[w].jobId][proc[w].stepType] = proc[w].error]
    /\ proc' = [proc EXCEPT ![w].pc = "markFailed"]
    /\ UNCHANGED <<jobs, assets, settings, cancelReq, crashes, faults>>

ProcessJob_Completed(w) ==
    /\ At(w, "markCompleted")
    /\ jobs' = [jobs EXCEPT ![proc[w].jobId] =
           [@ EXCEPT !.status = "completed", !.progressPercent = 100]]
    /\ proc' = [proc EXCEPT ![w] = [@ EXCEPT !.pc = "release", !.leaseInterval = FALSE]]
    /\ UNCHANGED <<jobSteps, assets, settings, cancelReq, crashes, faults, obs>>

ProcessJob_Failed(w) ==
    /\ At(w, "markFailed")
    /\ jobs' = [jobs EXCEPT ![proc[w].jobId] =
           [@ EXCEPT !.status = "failed", !.errorMessage = proc[w].error]]
    /\ proc' = [proc EXCEPT ![w] = [@ EXCEPT !.pc = "release", !.leaseInterval = FALSE]]
    /\ UNCHANGED <<jobSteps, assets, settings, cancelReq, crashes, faults, obs>>

\* finally: clearInterval, releaseJobLock; then the pump goes on
ProcessJob_Release(w) ==
    /\ At(w, "release")
    /\ jobs' = [jobs EXCEPT ![proc[w].jobId] = releaseJobLock(@, WORKER_ID(w))]
    /\ proc' = [proc EXCEPT ![w] = ProcessJobReturns(@)]
    /\ obs' = [obs EXCEPT !.run[w] = NoRun, !.cancelUnit[w] = NoUnit]
    /\ UNCHANGED <<jobSteps, assets, settings, cancelReq, crashes, faults>>

(***************************************************************************)
(* The system.                                                             *)
(***************************************************************************)
\* What a process does apart from the startup scan's release of stale leases.
Work(w) ==
    \/ ResumeJobsOnStartup_Scan(w)
    \/ InitializeJobSteps_Check(w)
    \/ InitializeJobSteps_Create(w)
    \/ ProcessJob_Acquire(w)
    \/ ProcessJob_Start(w)
    \/ RunStep_Enter(w)
    \/ RunStep_Script(w)
    \/ GenerateScript(w)
    \/ RunStep_Visual(w)
    \/ VisualScene(w)
    \/ GenerateImage(w)
    \/ VisualProgress(w)
    \/ VisualFinal(w)
    \/ RunStep_Audio(w)
    \/ AudioScene(w)
    \/ GenerateSpeech(w)
    \/ AudioProgress(w)
    \/ Reconcile(w)
    \/ RunStep_Video(w)
    \/ RenderVideo(w)
    \/ VideoProgress(w)
    \/ RunStep_Caption(w)
    \/ GenerateCaption(w)
    \/ RunStep_Completed(w)
    \/ RunStep_Failed(w)
    \/ ProcessJob_Completed(w)
    \/ ProcessJob_Failed(w)
    \/ ProcessJob_Release(w)

\* What a live worker process does by itself.
Step(w) ==
    \/ ResumeJobsOnStartup_ClearLease(w)
    \/ Work(w)

NoRequestInProgress == \A w \in Workers : proc[w].reqPc = "idle"
StartupOver == \A w \in Workers : proc[w].scanPc = "idle"
LateCrash(w) == proc[w].pc # "idle" /\ proc[w].stepType = "caption"

\* The job is deleted while one processJob call has acquired it and has not
\* read it yet, and nothing else is in progress on it.
EarlyDelete(j) ==
    /\ cancelReq[j] = "idle"
    /\ \A w \in Workers : proc[w].reqJob # j
    /\ \E w \in Workers :
          /\ At(w, "start") /\ proc[w].jobId = j
          /\ \A v \in Workers \ {w} :
                ~(proc[v].alive /\ proc[v].jobId = j /\ proc[v].pc \in InProcessJobPcs)

(***************************************************************************)
(* One worker process, restarted after a crash under a new WORKER_ID.      *)
(* Requests to create a job are served once the startup scan is over.      *)
(***************************************************************************)
Primary == "w1"

Next ==
    \/ Tick
    \/ \E j \in Jobs : CancelRoute_Check(j) \/ CancelRoute_Update(j)
    \/ \E j \in Jobs : EarlyDelete(j) /\ DeleteJob(j)
    \/ StartProcess(Primary)
    \/ Crash(Primary)
    \/ \E j \in Jobs : StartupOver /\ CreateJob(Primary, j)
    \/ Step(Primary)

Spec == Init /\ [][Next]_vars

(***************************************************************************)
(* One worker process that also serves requests to create a job while its  *)
(* startup scan is in progress.                                            *)
(***************************************************************************)
NextEarlyRequests ==
    \/ Tick
    \/ \E j \in Jobs : CancelRoute_Check(j) \/ CancelRoute_Update(j)
    \/ \E j \in Jobs : EarlyDelete(j) /\ DeleteJob(j)
    \/ StartProcess(Primary)
    \/ Crash(Primary)
    \/ \E j \in Jobs : CreateJob(Primary, j)
    \/ Step(Primary)

SpecEarlyRequests == Init /\ [][NextEarlyRequests]_vars

(***************************************************************************)
(* Two worker processes on one database.  Processes are started while no   *)
(* request to create a job is being served, such requests are served by    *)
(* processes whose startup scan is over, and a process crashes late in a   *)
(* job.                                                                    *)
(***************************************************************************)
NextFleet ==
    \/ Tick
    \/ \E j \in Jobs : CancelRoute_Check(j) \/ CancelRoute_Update(j)
    \/ \E j \in Jobs : EarlyDelete(j) /\ DeleteJob(j)
    \/ \E w \in Workers :
          \/ NoRequestInProgress /\ StartProcess(w)
          \/ LateCrash(w) /\ Crash(w)
          \/ \E j \in Jobs : StartupOver /\ CreateJob(w, j)
          \/ Step(w)

SpecFleet == Init /\ [][NextFleet]_vars

(***************************************************************************)
(* One worker process and two jobs: the queue holds more than the job      *)
(* being processed.  Requests to create a job are served at any time; no   *)
(* crash and no cancel request, so that no lease is ever left stale.       *)
(***************************************************************************)
InitQueue ==
    /\ jobs = [j \in QueueJobs |-> NoJobRow]
    /\ jobSteps = [j \in QueueJobs |-> [s \in StepTypeSet |-> "none"]]
    /\ assets = [j \in QueueJobs |-> [k \in AssetKeys |-> 0]]
    /\ settings = [s \in StepTypeSet |-> 0]
    /\ proc = [w \in Workers |-> StoppedProcess(0)]
    /\ cancelReq = [j \in QueueJobs |-> "idle"]
    /\ crashes = 0
    /\ faults = 0
    /\ obs = [run |-> [w \in Workers |-> NoRun],
              cancelUnit |-> [w \in Workers |-> NoUnit],
              cancelDuring |-> [j \in QueueJobs |-> {}],
              progressAge |-> [j \in QueueJobs |-> 0],
              stepMessage |-> [j \in QueueJobs |-> [s \in StepTypeSet |-> ""]],
              resumed |-> [w \in Workers |-> {}]]

NextQueue ==
    \/ StartProcess(Primary)
    \/ \E j \in QueueJobs : CreateJob(Primary, j)
    \/ Work(Primary)

SpecQueue == InitQueue /\ [][NextQueue]_vars

(***************************************************************************)
(* One worker process and the age of lastProgressAt.  The process is       *)
(* started and takes every step that does not wait for an external service *)
(* (the event loop runs what is ready), while a call to an external        *)
(* service returns when that service answers, if it does.  Ticks pass      *)
(* only while the process has nothing ready: the database operations take  *)
(* far less than a tick.                                                   *)
(***************************************************************************)
LocalStep(w) == proc[w].pc \notin CallPcs /\ Work(w)

NothingReady ==
    \A w \in Workers :
        proc[w].alive =>
            /\ proc[w].pc \in CallPcs \cup {"idle"}
            /\ proc[w].scanPc = "idle" /\ proc[w].reqPc = "idle"

\* Where a process is: every step of a process moves it.
Position(w) ==
    <<proc[w].alive, proc[w].pc, proc[w].stepType, proc[w].i,
      proc[w].scanPc, proc[w].reqPc, proc[w].reqStep>>
PrimaryPosition == Position(Primary)
ProgressAges == obs.progressAge

NextStuck ==
    \/ NothingReady /\ TickProgress
    \/ StartProcess(Primary)
    \/ \E j \in Jobs : StartupOver /\ CreateJob(Primary, j)
    \/ Work(Primary)

SpecStuck ==
    /\ Init /\ [][NextStuck]_vars
    /\ WF_ProgressAges(NothingReady /\ TickProgress)
    /\ WF_PrimaryPosition(StartProcess(Primary))
    /\ WF_PrimaryPosition(LocalStep(Primary))

(***************************************************************************)
(* The duration reconciliation by itself: one process has reached the      *)
(* second loop of the audio stage with a list of up to MaxProbeScenes      *)
(* scenes, each with or without a voice clip, and any probe may fail.      *)
(***************************************************************************)
ProbeAssetKeys ==
    {<<"image", k>> : k \in 1..MaxProbeScenes} \cup
    {<<"audio", k>> : k \in 1..MaxProbeScenes} \cup
    {<<"video", 0>>, <<"thumbnail", 0>>}

ProbeScenes(n, audio) ==
    [k \in 1..n |->
        [buildScenes(n)[k] EXCEPT
            !.backgroundAssetUrl = ImageUrl(k),
            !.audioAssetUrl = IF audio[k] THEN AudioUrl(k) ELSE ""]]

InitReconcile ==
    \E n \in 1..MaxProbeScenes : \E audio \in [1..n -> BOOLEAN] :
        LET scenes == ProbeScenes(n, audio)
            j == JobOrder[1]
        IN /\ jobs = [i \in Jobs |->
                  [NoJobRow EXCEPT !.status = "generating_assets",
                                   !.progressPercent = audioProgress(n, n),
                                   !.lockedBy = <<Primary, 1>>,
                                   !.leaseExpiresAt = now + LEASE_SECONDS,
                                   !.scriptText = "script", !.scenes = scenes]]
           /\ jobSteps = [i \in Jobs |->
                  [s \in StepTypeSet |->
                      IF s \in {"script", "assets_visual"} THEN "completed"
                      ELSE IF s = "assets_audio" THEN "running" ELSE "queued"]]
           /\ assets = [i \in Jobs |->
                  [k \in ProbeAssetKeys |->
                      IF k[1] = "image" /\ k[2] <= n THEN 1
                      ELSE IF k[1] = "audio" /\ k[2] <= n /\ audio[k[2]] THEN 1
                      ELSE 0]]
           /\ settings = [s \in StepTypeSet |->
                  IF s \in {"script", "assets_visual"} THEN 1 ELSE 0]
           /\ proc = [w \in Workers |->
                  IF w = Primary
                  THEN [StoppedProcess(1) EXCEPT
                           !.alive = TRUE, !.isProcessing = TRUE, !.pc = "reconcile",
                           !.jobId = j, !.stepType = "assets_audio", !.i = n,
                           !.leaseInterval = TRUE, !.script = "script",
                           !.scenes = scenes, !.updatedScenes = scenes]
                  ELSE StoppedProcess(0)]
           /\ cancelReq = [i \in Jobs |-> "idle"]
           /\ crashes = 0
           /\ faults = 0
           /\ obs = [run |-> [w \in Workers |-> NoRun],
                     cancelUnit |-> [w \in Workers |-> NoUnit],
                     cancelDuring |-> [i \in Jobs |-> {}],
                     progressAge |-> [i \in Jobs |-> 0],
                     stepMessage |-> [i \in Jobs |-> [s \in StepTypeSet |-> ""]],
                     resumed |-> [w \in Workers |-> {}]]

NextReconcile == ReconcileAnyProbes(Primary)

SpecReconcile == InitReconcile /\ [][NextReconcile]_vars

(***************************************************************************)
(* renderVideo by itself, one await at a time: one process has reached the *)
(* render with a reconciled list of up to MaxProbeScenes scenes; a         *)
(* download, an ffmpeg run or the removal of the directory may fail, and   *)
(* ffprobe may report anything of the output.  obs.render keeps what the   *)
(* renderer holds: the per-job directory, the audio files it collected,    *)
(* the transform of each scene, and the probe of the output.               *)
(***************************************************************************)
NoOutput ==
    [ffprobeOk |-> FALSE, parseOk |-> FALSE, duration |-> 0, hasAudio |-> FALSE,
     width |-> 0, height |-> 0, statOk |-> FALSE, size |-> 0]

NoRender ==
    [tempDir |-> FALSE, audioFiles |-> <<>>, transforms |-> <<>>,
     output |-> NoOutput, checked |-> FALSE, valid |-> FALSE, rmFailed |-> FALSE,
     exit |-> "none"]

\* scene.audioDurationSeconds || 5
sceneDuration(scene) ==
    IF scene.audioDurationSeconds # 0 THEN scene.audioDurationSeconds ELSE 5

\* A kenBurnsFilter that picks the direction by the length of the scene.
kenBurnsFilter_ByDuration(i, dur) ==
    LET zoomIn == dur % 2 = 0 IN
    [zoomStart |-> IF zoomIn THEN 100 ELSE 115,
     zoomEnd |-> IF zoomIn THEN 115 ELSE 100,
     frames |-> dur * DEFAULT_FPS]

\* kenBurnsFilter for the scene of 0-based index i lasting dur seconds:
\* the zoom runs from zoomStart to zoomEnd (in hundredths) over dur * fps
\* frames.
kenBurnsFilter(i, dur) ==
    LET zoomIn == i % 2 = 0 IN
    [zoomStart |-> IF zoomIn THEN 100 ELSE 115,
     zoomEnd |-> IF zoomIn THEN 115 ELSE 100,
     frames |-> dur * DEFAULT_FPS]

\* The concat demuxer plays the listed files back to back: the clip at
\* position p of audioFiles starts where the clips before it end.
RECURSIVE audioStart(_, _)
audioStart(audioFiles, p) ==
    IF p <= 1 THEN 0
    ELSE audioStart(audioFiles, p - 1) + AudioLength(audioFiles[p - 1])

\* A cleanupTempDir that removes nothing.
cleanupTempDir_Skip(exists, rmOk) == exists

\* cleanupTempDir: fs.rm, whose error is logged and dropped
cleanupTempDir(exists, rmOk) == IF rmOk THEN FALSE ELSE exists

\* ensureTempDir, then the download loop: the image of each scene (or a
\* placeholder made by ffmpeg) and the audio file of each scene that has
\* one and whose download succeeds.
RenderVideo_Prepare(w) ==
    /\ At(w, "renderVideo")
    /\ LET scenes == proc[w].scenes IN
       \E mkdirOk \in BOOLEAN, placeholderOk \in BOOLEAN,
          fetched \in [DOMAIN scenes -> BOOLEAN] :
          /\ \A k \in DOMAIN scenes : scenes[k].audioAssetUrl = "" => fetched[k]
          /\ IF ~mkdirOk
             THEN /\ proc' = [proc EXCEPT ![w] = Throw(@, "mkdir failed")]
                  /\ obs' = [obs EXCEPT !.render.exit = "raised"]
             ELSE IF ~placeholderOk
             THEN /\ proc' = [proc EXCEPT ![w] =
                         [@ EXCEPT !.pc = "renderCleanup",
                                   !.error = "ffmpeg exited with an error"]]
                  /\ obs' = [obs EXCEPT !.render.tempDir = TRUE]
             ELSE /\ proc' = [proc EXCEPT ![w].pc = "renderEncode"]
                  /\ obs' = [obs EXCEPT
                         !.render.tempDir = TRUE,
                         !.render.audioFiles =
                             SelectSeq([k \in DOMAIN scenes |-> k],
                                 LAMBDA k : scenes[k].audioAssetUrl # "" /\ fetched[k])]
    /\ UNCHANGED <<jobs, jobSteps, assets, settings, cancelReq, crashes, faults>>

\* The silent video with the transform of each scene, the concatenated
\* audio muxed onto it, the upload, the thumbnail and the integrity check.
RenderVideo_Encode(w) ==
    /\ At(w, "renderEncode")
    /\ LET scenes == proc[w].scenes
           transforms ==
               [k \in DOMAIN scenes |-> kenBurnsFilter(k - 1, sceneDuration(scenes[k]))]
       IN \E ffmpegOk \in BOOLEAN, probe \in IntegrityProbes :
             IF ~ffmpegOk
             THEN /\ proc' = [proc EXCEPT ![w].error = "ffmpeg exited with an error",
                                          ![w].pc = "renderCleanup"]
                  /\ obs' = [obs EXCEPT !.render.transforms = transforms]
             ELSE /\ proc' = [proc EXCEPT ![w].pc = "renderCleanup"]
                  /\ obs' = [obs EXCEPT
                         !.render.transforms = transforms,
                         !.render.output = probe,
                         !.render.checked = TRUE,
                         !.render.valid = checkVideoIntegrity(probe).valid]
    /\ UNCHANGED <<jobs, jobSteps, assets, settings, cancelReq, crashes, faults>>

\* cleanupTempDir on the way out, by return or from the catch block; the
\* worker then looks at result.integrityCheck.
RenderVideo_Cleanup(w) ==
    /\ At(w, "renderCleanup")
    /\ LET j == proc[w].jobId IN
       \E rmOk \in BOOLEAN :
          LET tempDir == cleanupTempDir(obs.render.tempDir, rmOk) IN
          IF proc[w].error # ""
          THEN /\ proc' = [proc EXCEPT ![w] = Throw(@, proc[w].error)]
               /\ obs' = [obs EXCEPT !.render.tempDir = tempDir, !.render.rmFailed = ~rmOk,
                                     !.render.exit = "raised"]
               /\ UNCHANGED assets
          ELSE IF ~obs.render.valid
          THEN /\ proc' = [proc EXCEPT ![w] = Throw(@, IntegrityMessage)]
               /\ obs' = [obs EXCEPT !.render.tempDir = tempDir, !.render.rmFailed = ~rmOk,
                                     !.render.exit = "returned"]
               /\ UNCHANGED assets
          ELSE /\ assets' = [assets EXCEPT ![j][<<"video", 0>>] = @ + 1,
                                          ![j][<<"thumbnail", 0>>] = @ + 1]
               /\ proc' = [proc EXCEPT ![w] =
                      [@ EXCEPT !.renderDuration = totalDuration(proc[w].scenes),
                                !.pc = "videoProgress"]]
               /\ obs' = [obs EXCEPT !.render.tempDir = tempDir, !.render.rmFailed = ~rmOk,
                                     !.render.exit = "returned"]
    /\ UNCHANGED <<jobs, jobSteps, settings, cancelReq, crashes, faults>>

InitRender ==
    \E n \in 1..MaxProbeScenes :
    \E audio \in [1..n -> BOOLEAN], probes \in [1..n -> BOOLEAN] :
        LET r == reconcileFrom(ProbeScenes(n, audio), probes, 1, 0, 0)
            scenes == r.scenes
            j == JobOrder[1]
        IN /\ Probed(ProbeScenes(n, audio), probes)
           /\ r.ok
           /\ jobs = [i \in Jobs |->
                  [NoJobRow EXCEPT !.status = "rendering_video",
                                   !.progressPercent = audioProgress(n, n),
                                   !.lockedBy = <<Primary, 1>>,
                                   !.leaseExpiresAt = now + LEASE_SECONDS,
                                   !.scriptText = "script", !.scenes = scenes]]
           /\ jobSteps = [i \in Jobs |->
                  [s \in StepTypeSet |->
                      IF s \in {"script", "assets_visual", "assets_audio"} THEN "completed"
                      ELSE IF s = "video" THEN "running" ELSE "queued"]]
           /\ assets = [i \in Jobs |->
                  [k \in ProbeAssetKeys |->
                      IF k[1] = "image" /\ k[2] <= n THEN 1
                      ELSE IF k[1] = "audio" /\ k[2] <= n /\ audio[k[2]] THEN 1
                      ELSE 0]]
           /\ settings = [s \in StepTypeSet |->
                  IF s \in {"script", "assets_visual", "assets_audio"} THEN 1 ELSE 0]
           /\ proc = [w \in Workers |->
                  IF w = Primary
                  THEN [StoppedProcess(1) EXCEPT
                           !.alive = TRUE, !.isProcessing = TRUE, !.pc = "renderVideo",
                           !.jobId = j, !.stepType = "video",
                           !.leaseInterval = TRUE, !.script = "script",
                           !.scenes = scenes, !.updatedScenes = scenes]
                  ELSE StoppedProcess(0)]
           /\ cancelReq = [i \in Jobs |-> "idle"]
           /\ crashes = 0
           /\ faults = 0
           /\ obs = [run |-> [w \in Workers |-> NoRun],
                     cancelUnit |-> [w \in Workers |-> NoUnit],
                     cancelDuring |-> [i \in Jobs |-> {}],
                     progressAge |-> [i \in Jobs |-> 0],
                     stepMessage |-> [i \in Jobs |-> [s \in StepTypeSet |-> ""]],
                     resumed |-> [w \in Workers |-> {}],
                     render |-> NoRender]

NextRender ==
    \/ RenderVideo_Prepare(Primary)
    \/ RenderVideo_Encode(Primary)
    \/ RenderVideo_Cleanup(Primary)

SpecRender == InitRender /\ [][NextRender]_vars

(***************************************************************************)
(* One generator call of ai.ts by itself: the request is attempted under   *)
(* pRetry, and each attempt returns a result or raises an error.  An       *)
(* error is the set of marks its message carries; obs.call keeps the       *)
(* generator, its retries option, the outcome of every attempt made and    *)
(* whether the call is pending, resolved or rejected.                      *)
(***************************************************************************)
NoError == {}
ApiErrors == {{"429"}, {"RATELIMIT_EXCEEDED"}, {"quota"}, {"rate limit"}, {"500"}, {"401"}}

\* The retries option each generator passes to pRetry.
Generators ==
    [generateScript |-> 5, generateImagePrompt |-> 3, generateImage |-> 3,
     generateSpeech |-> 3, generateCaptionAndHashtags |-> 3]

\* An isRateLimitError that takes every error for a rate limit.
isRateLimitError_Always(error) == TRUE

\* isRateLimitError: the message includes "429", "RATELIMIT_EXCEEDED",
\* "quota" or "rate limit"
isRateLimitError(error) ==
    \/ "429" \in error
    \/ "RATELIMIT_EXCEEDED" \in error
    \/ "quota" \in error
    \/ "rate limit" \in error

\* The function handed to pRetry: the result, the error itself when it is
\* a rate limit, an AbortError around it otherwise.
attempt(outcome) ==
    IF outcome = NoError THEN "result"
    ELSE IF isRateLimitError(outcome) THEN "error"
    ELSE "AbortError"

\* pRetry after one more attempt: a result resolves, an AbortError
\* rejects at once, another error rejects once `retries` retries are used
\* up and is retried otherwise.
pRetry(call, outcome) ==
    LET log == Append(call.log, outcome)
        thrown == attempt(outcome)
    IN [call EXCEPT
           !.log = log,
           !.status = IF thrown = "result" THEN "resolved"
                      ELSE IF thrown = "AbortError" THEN "rejected"
                      ELSE IF Len(log) > call.retries THEN "rejected"
                      ELSE "pending"]

Attempt ==
    /\ obs.call.status = "pending"
    /\ \E outcome \in {NoError} \cup ApiErrors :
          obs' = [obs EXCEPT !.call = pRetry(@, outcome)]
    /\ UNCHANGED <<jobs, jobSteps, assets, settings, proc, cancelReq, crashes, faults>>

InitRetry ==
    /\ jobs = [j \in Jobs |-> NoJobRow]
    /\ jobSteps = [j \in Jobs |-> [s \in StepTypeSet |-> "none"]]
    /\ assets = [j \in Jobs |-> [k \in AssetKeys |-> 0]]
    /\ settings = [s \in StepTypeSet |-> 0]
    /\ proc = [w \in Workers |-> StoppedProcess(0)]
    /\ cancelReq = [j \in Jobs |-> "idle"]
    /\ crashes = 0
    /\ faults = 0
    /\ \E fn \in DOMAIN Generators :
          obs = [run |-> [w \in Workers |-> NoRun],
                 cancelUnit |-> [w \in Workers |-> NoUnit],
                 cancelDuring |-> [j \in Jobs |-> {}],
                 progressAge |-> [j \in Jobs |-> 0],
                 stepMessage |-> [j \in Jobs |-> [s \in StepTypeSet |-> ""]],
                 resumed |-> [w \in Workers |-> {}],
                 call |-> [fn |-> fn, retries |-> Generators[fn],
                           log |-> <<>>, status |-> "pending"]]

NextRetry == Attempt

SpecRetry == InitRetry /\ [][NextRetry]_vars

(***************************************************************************)
(* The end of runStep one storage call at a time, in two processes that    *)
(* each finish the script stage of a job of their own: the step is marked  *)
(* completed, saveStepTiming reads the setting of the (contentType,        *)
(* stageType) pair and then writes it.  obs.timing keeps the stored        *)
(* average, what each process read, the duration it measured, and how      *)
(* many saveStepTiming calls have returned.  The durations and bounds are  *)
(* such that every average is a whole number.                              *)
(***************************************************************************)
Durations == {6, 12}

WorkerJob(w) == IF w = Primary THEN JobOrder[1] ELSE JobOrder[2]

NoSetting == [avgMs |-> 0, count |-> 0]

\* updateJobStep(completed, durationMs), with durationMs = Date.now() - startTime
RunStep_MarkCompleted(w) ==
    /\ At(w, "stepCompleted")
    /\ jobSteps' = [jobSteps EXCEPT ![proc[w].jobId][proc[w].stepType] = "completed"]
    /\ \E durationMs \in Durations :
          obs' = [obs EXCEPT !.timing.durationMs[w] = durationMs]
    /\ proc' = [proc EXCEPT ![w].pc = "getSetting"]
    /\ UNCHANGED <<jobs, assets, settings, cancelReq, crashes, faults>>

\* saveStepTiming: const existing = await storage.getSetting(key)
SaveStepTiming_Get(w) ==
    /\ At(w, "getSetting")
    /\ obs' = [obs EXCEPT !.timing.existing[w] =
           [avgMs |-> obs.timing.avgMs[proc[w].stepType],
            count |-> settings[proc[w].stepType]]]
    /\ proc' = [proc EXCEPT ![w].pc = "setSetting"]
    /\ UNCHANGED <<jobs, jobSteps, assets, settings, cancelReq, crashes, faults>>

\* The value saveStepTiming stores, from the value it read.
rollingAverage(existing, durationMs) ==
    IF existing.count # 0
    THEN [avgMs |-> (existing.avgMs * existing.count + durationMs) \div (existing.count + 1),
          count |-> existing.count + 1]
    ELSE [avgMs |-> durationMs, count |-> 1]

\* saveStepTiming: await storage.setSetting(key, { avgMs, count }), and
\* runStep returns.
SaveStepTiming_Set(w) ==
    /\ At(w, "setSetting")
    /\ LET s == proc[w].stepType
           value == rollingAverage(obs.timing.existing[w], obs.timing.durationMs[w])
       IN /\ settings' = [settings EXCEPT ![s] = value.count]
          /\ obs' = [obs EXCEPT !.timing.avgMs[s] = value.avgMs,
                                !.timing.completions[s] = @ + 1]
    /\ proc' = [proc EXCEPT ![w] = NextStage(@)]
    /\ UNCHANGED <<jobs, jobSteps, assets, cancelReq, crashes, faults>>

InitTiming ==
    \E before \in {NoSetting} \cup {[avgMs |-> a, count |-> 1] : a \in Durations} :
        /\ jobs = [j \in QueueJobs |->
               [NoJobRow EXCEPT !.status = "generating_script",
                                !.progressPercent = STEP_WEIGHTS.script,
                                !.lockedBy = IF j = WorkerJob(Primary)
                                             THEN <<Primary, 1>>
                                             ELSE <<CHOOSE w \in Workers : w # Primary, 1>>,
                                !.leaseExpiresAt = now + LEASE_SECONDS,
                                !.scriptText = "script",
                                !.scenes = buildScenes(MaxScenes)]]
        /\ jobSteps = [j \in QueueJobs |->
               [s \in StepTypeSet |-> IF s = "script" THEN "running" ELSE "queued"]]
        /\ assets = [j \in QueueJobs |-> [k \in AssetKeys |-> 0]]
        /\ settings = [s \in StepTypeSet |-> IF s = "script" THEN before.count ELSE 0]
        /\ proc = [w \in Workers |->
               [StoppedProcess(1) EXCEPT
                   !.alive = TRUE, !.isProcessing = TRUE, !.pc = "stepCompleted",
                   !.jobId = WorkerJob(w), !.stepType = "script",
                   !.leaseInterval = TRUE, !.script = "script",
                   !.scenes = buildScenes(MaxScenes)]]
        /\ cancelReq = [j \in QueueJobs |-> "idle"]
        /\ crashes = 0
        /\ faults = 0
        /\ obs = [run |-> [w \in Workers |-> NoRun],
                  cancelUnit |-> [w \in Workers |-> NoUnit],
                  cancelDuring |-> [j \in QueueJobs |-> {}],
                  progressAge |-> [j \in QueueJobs |-> 0],
                  stepMessage |-> [j \in QueueJobs |-> [s \in StepTypeSet |-> ""]],
                  resumed |-> [w \in Workers |-> {}],
                  timing |-> [avgMs |-> [s \in StepTypeSet |->
                                            IF s = "script" THEN before.avgMs ELSE 0],
                              before |-> before.count,
                              existing |-> [w \in Workers |-> NoSetting],
                              durationMs |-> [w \in Workers |-> 0],
                              completions |-> [s \in StepTypeSet |-> 0]]]

NextTiming ==
    \E w \in Workers :
        \/ RunStep_MarkCompleted(w)
        \/ SaveStepTiming_Get(w)
        \/ SaveStepTiming_Set(w)

SpecTiming == InitTiming /\ [][NextTiming]_vars

(***************************************************************************)
(* One process and two jobs as in SpecQueue, with a storage that may raise *)
(* where processJob does not catch it: at acquireJobLock, before the try,  *)
(* and at the updateJob of the catch block.  processQueue has no handler   *)
(* and nothing awaits or catches its promise: the rejection either is      *)
(* only reported, and the process lives on, or ends the process.           *)
(***************************************************************************)
\* processQueue after the await of processJob has raised: the loop is left
\* with isProcessing still set and the queue as it is.
processQueue_Rejected(p) == [NoCall(p) EXCEPT !.isProcessing = TRUE]

ProcessJob_Raises(w) ==
    /\ \/ /\ At(w, "acquire")
          /\ UNCHANGED jobs
       \/ /\ At(w, "markFailed")
          /\ jobs' = [jobs EXCEPT ![proc[w].jobId] = releaseJobLock(@, WORKER_ID(w))]
    /\ \/ /\ proc' = [proc EXCEPT ![w] = processQueue_Rejected(@)]
          /\ UNCHANGED crashes
       \/ /\ crashes < MaxCrashes
          /\ crashes' = crashes + 1
          /\ proc' = [proc EXCEPT ![w] = StoppedProcess(proc[w].gen)]
    /\ ExternalCall(1)
    /\ obs' = [obs EXCEPT !.run[w] = NoRun, !.cancelUnit[w] = NoUnit]
    /\ UNCHANGED <<jobSteps, assets, settings, cancelReq>>

NextPump ==
    \/ StartProcess(Primary)
    \/ \E j \in QueueJobs : CreateJob(Primary, j)
    \/ Work(Primary)
    \/ ProcessJob_Raises(Primary)

SpecPump == InitQueue /\ [][NextPump]_vars

(***************************************************************************)
(* Properties.                                                             *)
(***************************************************************************)
LeaseUnexpired(row) ==
    row.lockedBy # NoOwner /\ row.leaseExpiresAt # NoLease /\ row.leaseExpiresAt >= now

\* The step in which the acquireJobLock call of worker w returns.
AcquireReturns(w) ==
    /\ proc[w].alive /\ proc[w].pc = "acquire"
    /\ proc'[w].alive
    /\ proc'[w].pc # "acquire" \/ Len(proc'[w].jobQueue) < Len(proc[w].jobQueue)

AcquireGranted(w) == AcquireReturns(w) /\ proc'[w].pc = "start"

\* The step is one of the processJob call of worker w.
Acts(w) == proc[w].alive /\ proc'[w].alive /\ proc'[w] # proc[w]

C2_StatusChangeUnderLease ==
    [][\A j \in Jobs :
          Found(jobs[j]) /\ Found(jobs'[j]) /\ jobs'[j].status # jobs[j].status =>
              \E w \in Workers :
                  /\ Acts(w) /\ proc[w].jobId = j
                  /\ jobs[j].lockedBy = WORKER_ID(w)
                  /\ LeaseUnexpired(jobs[j])]_vars

\* The step in which runStep, for worker w, marks the step running and calls
\* the stage function.
StageInvoked(w) == Acts(w) /\ proc[w].pc = "stepRunning" /\ proc'[w].pc # "stepRunning"

\* The step in which worker w issues a call to an external generator or to
\* the encoder.
CallIssued(w) == Acts(w) /\ proc[w].pc \notin CallPcs /\ proc'[w].pc \in CallPcs

\* C3 (idempotent resume, step level): for a step that was completed when
\* processJob started on the job, the stage function is not invoked and no
\* external generator or encoder call is made.
C3_CompletedStepsNotInvoked ==
    [][\A w \in Workers :
          StageInvoked(w) \/ CallIssued(w) =>
              proc'[w].stepType \notin obs.run[w].completedAtStart]_vars

\* A processJob call that started with completed steps has skipped them and
\* is about to run the stage function of a later step.
C3_Witness ==
    \E w \in Workers :
        /\ proc[w].alive /\ proc[w].pc = "stepRunning"
        /\ obs.run[w].completedAtStart # {}
        /\ \A s \in obs.run[w].completedAtStart :
              StepIndex(s) < StepIndex(proc[w].stepType)

\* C4 (idempotent resume, result level): a job whose stored record has a
\* script and scenes ends its assets_audio step with the timing of every
\* scene recomputed from a positive duration, as in an uninterrupted run,
\* wherever the run that executed the script stage was interrupted.
C4_ResumeYieldsSameContents ==
    \A j \in Jobs :
        /\ jobSteps[j]["assets_audio"] = "completed"
        /\ jobs[j].scriptText # "" /\ jobs[j].scenes # <<>>
        => \A k \in DOMAIN jobs[j].scenes : jobs[j].scenes[k].audioDurationSeconds > 0

\* C5 (cancellation terminates): a job with its five JobSteps on which
\* cancelRequested was set while a worker was inside one of its stages, the
\* last stage included, never reaches completed.
C5_CancellationTerminates ==
    \A j \in Jobs :
        obs.cancelDuring[j] # {} /\ (\A s \in StepTypeSet : jobSteps[j][s] # "none") =>
            jobs[j].status # "completed"

\* C6 as stated: once cancelRequested is set, no worker issues a call to an
\* external generator or to the encoder for the job.
C6_NoCallAfterCancel ==
    [][\A w \in Workers :
          CallIssued(w) => ~jobs[proc[w].jobId].cancelRequested]_vars

\* C6 (amended): a call issued after cancelRequested was set belongs to the
\* unit of work (the scene, or the stage) whose cancellation check the worker
\* had already passed when the request was set; no call is issued for a
\* later scene or stage.
C6_NoCallBeyondCurrentUnit ==
    [][\A w \in Workers :
          CallIssued(w) /\ jobs[proc[w].jobId].cancelRequested =>
              Unit(proc'[w]) = obs.cancelUnit[w]]_vars

\* cancelRequested was set while a worker was inside a unit of work, and the
\* call of that unit is in flight.
C6_Witness ==
    \E w \in Workers :
        /\ proc[w].alive /\ proc[w].pc \in CallPcs
        /\ jobs[proc[w].jobId].cancelRequested
        /\ obs.cancelUnit[w] = Unit(proc[w])

\* C7 (monotonic progress): while a job is not failed, no write lowers its
\* progressPercent or takes it out of 0..100.
C7_MonotonicProgress ==
    [][\A j \in Jobs :
          /\ Found(jobs[j]) /\ Found(jobs'[j])
          /\ jobs[j].status # "failed" /\ jobs'[j].status # "failed" =>
              /\ jobs'[j].progressPercent >= jobs[j].progressPercent
              /\ jobs'[j].progressPercent \in 0..100]_vars

\* C8 (integrity gate): a render whose encoder exits 0 but whose output fails
\* the integrity check records no video asset and no videoUrl; the worker
\* then fails the video step and the job with the integrity message; and a
\* job failed by the integrity check never reaches completed.
C8_IntegrityGate ==
    [][/\ \A w \in Workers :
             LET j == proc[w].jobId
                 moves == Acts(w) /\ proc'[w].pc # proc[w].pc
                          /\ proc[w].error = IntegrityMessage
             IN /\ Acts(w) /\ proc[w].pc = "renderVideo"
                      /\ proc'[w].error = IntegrityMessage
                   => proc'[w].pc = "stepFailed" /\ assets' = assets /\ jobs' = jobs
                /\ moves /\ proc[w].pc = "stepFailed"
                   => proc'[w].pc = "markFailed" /\ jobSteps'[j]["video"] = "failed"
                /\ moves /\ proc[w].pc = "markFailed"
                   => /\ jobs'[j].status = "failed"
                      /\ jobs'[j].errorMessage = IntegrityMessage
       /\ \A j \in Jobs :
             jobs'[j].errorMessage = IntegrityMessage => jobs'[j].status # "completed"]_vars

Contiguous(scenes) ==
    \A k \in 1..(Len(scenes) - 1) : scenes[k].endTime = scenes[k + 1].startTime

\* C9 (scene timing): once the assets_audio step is completed, adjacent
\* scenes are contiguous, and once a render has reported the total duration
\* the last scene's endTime equals it.
C9_SceneTiming ==
    \A j \in Jobs :
        jobSteps[j]["assets_audio"] = "completed" =>
            LET scenes == jobs[j].scenes IN
            /\ Contiguous(scenes)
            /\ jobs[j].videoUrl # "" /\ scenes # <<>> =>
                  scenes[Len(scenes)].endTime = jobs[j].durationSeconds

\* A job with two scenes of different lengths has been rendered.
C9_Witness ==
    \E j \in Jobs :
        /\ jobSteps[j]["assets_audio"] = "completed" /\ jobs[j].videoUrl # ""
        /\ Len(jobs[j].scenes) > 1
        /\ jobs[j].scenes[1].audioDurationSeconds # jobs[j].scenes[2].audioDurationSeconds

\* C10 (crash/restart safety): a job that the startup scan of a live process
\* found non-terminal is not left non-terminal with nothing to process it:
\* it is in that process's queue, or some live process is processing it.
C10_ResumedJobsProcessed ==
    \A w \in Workers : \A j \in obs.resumed[w] :
        proc[w].alive /\ Found(jobs[j]) /\ jobs[j].status \notin TerminalStatuses =>
            \/ proc[w].scanPc # "idle"
            \/ j \in Range(proc[w].jobQueue)
            \/ \E v \in Workers : proc[v].alive /\ proc[v].jobId = j

\* C11 (terminal exactly once): after the status of a job is completed or
\* failed, no step (of a queue, of the startup scan, of a further processJob
\* call, of another worker) changes its status again.
C11_TerminalOnce ==
    [][\A j \in Jobs :
          jobs[j].status \in TerminalStatuses /\ Found(jobs'[j]) =>
              jobs'[j].status = jobs[j].status]_vars

\* The processJob call of worker w is running with its renewal timer stopped:
\* a renewal has returned false.
LostLease(w) ==
    proc[w].alive /\ proc[w].pc \in InProcessJobPcs /\ ~proc[w].leaseInterval

\* The step in which worker w passes the head of a scene iteration and goes
\* on to generate the scene's asset.
SceneStarted(w) ==
    Acts(w) /\ proc[w].pc \in {"visualScene", "audioScene"}
            /\ proc'[w].pc \in {"generateImage", "generateSpeech"}

\* C12 (lost lease): after a renewal for the job has returned false while
\* processJob is running, that worker starts no further stage or scene of
\* the job and writes neither its status nor its progress.
C12_LostLeaseStopsWork ==
    [][\A w \in Workers :
          LostLease(w) /\ Acts(w) =>
              LET j == proc[w].jobId IN
              /\ ~StageInvoked(w) /\ ~SceneStarted(w)
              /\ jobs'[j].status = jobs[j].status
              /\ jobs'[j].progressPercent = jobs[j].progressPercent]_vars

\* The pcs of a processJob call that holds, or has held, the job's lease.
AfterAcquirePcs == InProcessJobPcs \cup {"release"}

\* The step in which the processJob call of worker w, having acquired the
\* lease, returns to the pump.
ProcessJobReturned(w) ==
    Acts(w) /\ proc[w].pc \in AfterAcquirePcs /\ proc'[w].pc \notin AfterAcquirePcs

\* C13 (release on every exit path): a processJob call that has acquired the
\* lease returns only through the release in finally, whichever way it ends
\* (completed, failed, job not found, exception inside a stage); when it
\* returns the job is not locked by that worker, the renewal timer is
\* stopped, and a further release would change nothing.
C13_ReleasedOnEveryExit ==
    [][\A w \in Workers :
          ProcessJobReturned(w) =>
              LET j == proc[w].jobId IN
              /\ proc[w].pc = "release"
              /\ jobs'[j].lockedBy # WORKER_ID(w)
              /\ ~proc[w].leaseInterval /\ ~proc'[w].leaseInterval
              /\ releaseJobLock(jobs'[j], WORKER_ID(w)) = jobs'[j]]_vars

\* A processJob call acquired the job, did not find it (it had been deleted
\* meanwhile) and has returned.
C13_Witness ==
    \E j \in Jobs :
        /\ jobs[j].status = "deleted"
        /\ \E w \in Workers : proc[w].alive /\ proc[w].gen > 0
        /\ \A w \in Workers : proc[w].alive => proc[w].pc = "idle"

\* C14 (completed means all steps completed): whenever the status of a job is
\* completed, its five JobSteps exist with status completed and its
\* progressPercent is 100.
C14_CompletedHasAllSteps ==
    \A j \in Jobs :
        jobs[j].status = "completed" =>
            /\ \A s \in StepTypeSet : jobSteps[j][s] = "completed"
            /\ jobs[j].progressPercent = 100

\* C15 (completed means deliverable): whenever the status of a job is
\* completed (and, here, its five JobSteps are completed), the job has a
\* video URL with a video asset recorded after a valid integrity check, a
\* non-empty caption and at least one hashtag.
C15_CompletedHasOutputs ==
    \A j \in Jobs :
        jobs[j].status = "completed"
            /\ (\A s \in StepTypeSet : jobSteps[j][s] = "completed") =>
            /\ jobs[j].videoUrl # "" /\ assets[j][<<"video", 0>>] > 0
            /\ jobs[j].caption # "" /\ jobs[j].hashtags > 0

\* The request that creates job j is being served by a live process.
BeingCreated(j) == \E w \in Workers : proc[w].alive /\ proc[w].reqJob = j

\* C16 (steps created in full): a job whose creation is not in progress any
\* more has its five JobSteps, one per stage type, never a partial set, also
\* when step creation was interrupted part-way.
C16_StepsCreatedInFull ==
    \A j \in Jobs :
        Found(jobs[j]) /\ ~BeingCreated(j) =>
            \A s \in StepTypeSet : jobSteps[j][s] # "none"

VisualPcs == {"visualScene", "generateImage", "visualProgress", "visualFinal"}
AudioPcs == {"audioScene", "generateSpeech", "audioProgress", "reconcile"}

\* The scenes that carried their image (their voice clip) in the stored job
\* when the stage of worker w loaded it.
CarriedImages(w) ==
    {k \in DOMAIN proc[w].scenes : proc[w].scenes[k].backgroundAssetUrl # ""}
CarriedAudio(w) ==
    {k \in DOMAIN proc[w].scenes : proc[w].scenes[k].audioAssetUrl # ""}

CancelSet(j) == ~jobs[j].cancelRequested /\ jobs'[j].cancelRequested

\* C18 (no cancel on a terminal job): cancelRequested is never set on a job
\* whose status is completed or failed, however the cancel request
\* interleaves with the worker that is finishing the job.
C18_NoCancelOnTerminal ==
    [][\A j \in Jobs : CancelSet(j) => jobs[j].status \notin TerminalStatuses]_vars

\* C19 (frame of a cancel request): the steps of a cancel request change
\* nothing but the job's cancelRequested flag (status, lockedBy,
\* leaseExpiresAt, progressPercent, scenes, the JobSteps, the assets and the
\* other jobs are left as they are), and a request that finds the job
\* completed or failed is rejected: it gets past the status test only when
\* the job it read is not terminal.
C19_CancelChangesOnlyFlag ==
    [][\A j \in Jobs :
          cancelReq'[j] # cancelReq[j] =>
              /\ jobSteps' = jobSteps /\ assets' = assets /\ proc' = proc
              /\ \A i \in Jobs \ {j} : jobs'[i] = jobs[i]
              /\ jobs'[j] = [jobs[j] EXCEPT !.cancelRequested = jobs'[j].cancelRequested]
              /\ cancelReq[j] = "idle" =>
                    /\ jobs'[j] = jobs[j]
                    /\ jobs[j].status \notin TerminalStatuses]_vars

\* A cancel request has set the flag on a job that a worker holds and has
\* brought past the script stage.
C19_Witness ==
    \E j \in Jobs :
        /\ jobs[j].cancelRequested /\ cancelReq[j] = "idle"
        /\ jobs[j].status \notin TerminalStatuses
        /\ jobs[j].lockedBy # NoOwner /\ jobs[j].progressPercent > 0
        /\ jobs[j].scenes # <<>>
        /\ \A s \in StepTypeSet : jobSteps[j][s] # "none"

\* The step in which a call of worker w to a generator or to the encoder
\* ends in error.
CallFailed(w) == Acts(w) /\ proc[w].pc \in CallPcs /\ faults' > faults

\* C20 (errors inside a stage fail the job): when a generator or encoder
\* call inside a stage ends in error, the image or speech generator of a
\* single scene included, the stage throws; the error then marks the
\* current JobStep failed and the job failed, and the worker goes on to no
\* later scene or stage.
C20_StageErrorFailsJob ==
    [][\A w \in Workers :
          LET j == proc[w].jobId IN
          /\ CallFailed(w) => proc'[w].pc = "stepFailed"
          /\ Acts(w) /\ proc[w].pc = "stepFailed" /\ proc'[w].pc # "stepFailed" =>
                /\ proc'[w].pc = "markFailed"
                /\ jobSteps'[j][proc[w].stepType] = "failed"
          /\ Acts(w) /\ proc[w].pc = "markFailed" /\ proc'[w].pc # "markFailed" =>
                jobs'[j].status = "failed"]_vars

\* C21 (error message on failure): whenever the status of a job is failed,
\* its errorMessage is a non-empty text: that of the error that failed it,
\* or the cancellation message.
C21_FailedHasMessage ==
    \A j \in Jobs : jobs[j].status = "failed" => jobs[j].errorMessage # ""

\* A job has been failed by an error thrown inside a stage, and its worker
\* has returned.
C21_Witness ==
    \E j \in Jobs :
        /\ jobs[j].status = "failed"
        /\ jobs[j].errorMessage \notin {"", CancelledMessage}
        /\ \E s \in StepTypeSet : jobSteps[j][s] = "failed"
        /\ jobs[j].lockedBy = NoOwner

\* C22 (a completed step is immutable): once the status of a JobStep is
\* completed it never changes again while the job exists, whatever runs,
\* resumes and failures follow the completion write.
C22_CompletedStepImmutable ==
    [][\A j \in Jobs : \A s \in StepTypeSet :
          jobSteps[j][s] = "completed" /\ Found(jobs'[j]) =>
              jobSteps'[j][s] = "completed"]_vars

NoDuplicates(q) == \A a, b \in 1..Len(q) : q[a] = q[b] => a = b

IsPrefix(s, q) == Len(s) <= Len(q) /\ \A k \in 1..Len(s) : q[k] = s[k]

\* C23 (queue without duplicates, FIFO): the queue of a process never holds
\* an id twice; enqueueing an id that is in the queue leaves the queue, and
\* the process, as they are; and the queue changes only by appending at the
\* tail and by the pump taking the head, so ids leave it in the order in
\* which they entered.
C23_QueueDedupFifo ==
    [][\A w \in Workers :
          LET q == proc[w].jobQueue IN
          /\ NoDuplicates(q)
          /\ \A id \in Range(q) : enqueueJob(proc[w], id) = proc[w]
          /\ proc'[w].alive /\ proc'[w].jobQueue # q =>
                \/ IsPrefix(q, proc'[w].jobQueue)
                \/ /\ q # <<>> /\ IsPrefix(Tail(q), proc'[w].jobQueue)
                   /\ proc'[w].jobId = Head(q) /\ proc'[w].pc = "acquire"]_vars

\* While j1 was being processed j2 was enqueued by its create request, and
\* the startup scan then enqueued j1 and j2 in that order: j2 was in the
\* queue already and the queue holds it once, ahead of j1.
C23_Witness ==
    \E w \in Workers :
        /\ proc[w].alive /\ proc[w].scanPc = "idle"
        /\ obs.resumed[w] = QueueJobs
        /\ proc[w].jobQueue = <<JobOrder[2], JobOrder[1]>>

\* The step in which the pump of worker w calls processJob for a dequeued id.
PumpCalls(w) ==
    /\ proc'[w].alive /\ proc'[w].pc = "acquire"
    /\ \/ proc[w].pc # "acquire"
       \/ proc'[w].jobId # proc[w].jobId
       \/ Len(proc'[w].jobQueue) < Len(proc[w].jobQueue)

\* The jobs whose lease is held under the WORKER_ID of worker w.
HeldBy(w) == {j \in DOMAIN jobs : Found(jobs[j]) /\ jobs[j].lockedBy = WORKER_ID(w)}

\* C24 (one job at a time per process): isProcessing is set exactly while a
\* processJob call is in progress; the pump calls processJob for a dequeued
\* id only when no call is in progress or in the very step in which the
\* call in progress returns (after its release, or skipped at the refused
\* acquire); an enqueueJob during a call leaves the call as it is; and the
\* process never holds the lease of two jobs.
C24_OneJobAtATime ==
    [][\A w \in Workers :
          /\ proc[w].alive => (proc[w].isProcessing <=> proc[w].pc # "idle")
          /\ proc[w].alive /\ proc[w].pc # "idle" => proc[w].jobId # NoJob
          /\ PumpCalls(w) => proc[w].pc \in {"idle", "acquire", "release"}
          /\ \A id \in DOMAIN jobs :
                proc[w].isProcessing =>
                    /\ enqueueJob(proc[w], id).pc = proc[w].pc
                    /\ enqueueJob(proc[w], id).jobId = proc[w].jobId
          /\ Cardinality(HeldBy(w)) <= 1]_vars

\* One job is being rendered under the only lease the process holds, and
\* the other job, enqueued during that call, waits in the queue.
C24_Witness ==
    \E w \in Workers :
        /\ proc[w].alive /\ proc[w].isProcessing
        /\ proc[w].jobId = JobOrder[2] /\ proc[w].pc = "renderVideo"
        /\ proc[w].jobQueue = <<JobOrder[1]>>
        /\ HeldBy(w) = {JobOrder[2]}

\* C25 (assets created once): no job has two Asset records for the same
\* stage, scene and generation inputs (an asset key of the model stands for
\* one such combination), the video record included.
C25_AssetCreatedOnce ==
    \A j \in Jobs : \A k \in AssetKeys : assets[j][k] <= 1

\* lastProgressAt of a non-terminal job is further back than the threshold.
Stuck(j) ==
    /\ Found(jobs[j]) /\ jobs[j].status \in resumableStatuses
    /\ obs.progressAge[j] >= StuckTicks

\* C26 (stuck-job detection): a non-terminal job whose lastProgressAt has
\* not advanced for longer than the stuck threshold is moved to failed.
C26_StuckJobsFail ==
    \A j \in Jobs : [](Stuck(j) => <>(jobs[j].status = "failed"))

\* The step in which runStep of worker w calls the stage function.
StageStarts(w) ==
    /\ At(w, "stepRunning")
    /\ proc'[w].alive /\ proc'[w].pc # "stepRunning"

\* C27 (stages in pipeline order): the stage function of a stage starts only
\* when the JobStep of every earlier stage of the job is completed.
C27_StagesInOrder ==
    [][\A w \in Workers :
          StageStarts(w) =>
              \A k \in 1..(StepIndex(proc[w].stepType) - 1) :
                  jobSteps[proc[w].jobId][StepTypes[k]] = "completed"]_vars

\* The order of the job statuses short of failed.
StatusOrder ==
    <<"queued", "running", "generating_script", "generating_assets",
      "rendering_video", "generating_caption", "completed">>
StatusRank(s) == CHOOSE k \in 1..Len(StatusOrder) : StatusOrder[k] = s

\* C28 (status moves forward): a change of a job's status either moves it
\* to a later status of the order queued, running, generating_script,
\* generating_assets, rendering_video, generating_caption, completed, or
\* moves it from a non-terminal status to failed; resumed jobs included.
C28_StatusForward ==
    [][\A j \in Jobs :
          Found(jobs[j]) /\ Found(jobs'[j]) /\ jobs'[j].status # jobs[j].status =>
              \/ /\ jobs'[j].status = "failed"
                 /\ jobs[j].status \notin TerminalStatuses
              \/ /\ jobs[j].status \in Range(StatusOrder)
                 /\ jobs'[j].status \in Range(StatusOrder)
                 /\ StatusRank(jobs'[j].status) > StatusRank(jobs[j].status)]_vars

LaterSteps(s) == {StepTypes[k] : k \in (StepIndex(s) + 1)..Len(StepTypes)}

\* The step in which worker w leaves position pc.
Leaves(w, pc) == At(w, pc) /\ proc'[w].alive /\ proc'[w].pc # pc

Reconciled(w) ==
    /\ proc[w].alive /\ proc[w].stepType = "assets_audio"
    /\ proc[w].pc \in {"stepCompleted", "stepFailed"}
    /\ obs.run[w].probes # <<>>

ReconcileAborted(w) == proc[w].pc = "stepFailed" /\ proc[w].error = DesyncMessage

\* Probing fails for MAX_CONSECUTIVE_FAILURES consecutive scenes.
ConsecutiveScenesFail(probes) ==
    \E k \in 1..(Len(probes) - MAX_CONSECUTIVE_FAILURES + 1) :
        \A d \in 0..(MAX_CONSECUTIVE_FAILURES - 1) : ~probes[k + d]

\* C30 (reconciliation aborts on three consecutive scenes): the
\* reconciliation aborts exactly when the probe fails for three consecutive
\* scenes; when it does not abort, every scene whose probe failed has the
\* duration estimated from the length of its text.
C30_AbortOnThreeConsecutiveScenes ==
    \A w \in Workers :
        Reconciled(w) =>
            /\ ReconcileAborted(w) <=> ConsecutiveScenesFail(obs.run[w].probes)
            /\ ~ReconcileAborted(w) =>
                  \A k \in 1..Len(obs.run[w].probes) :
                      ~obs.run[w].probes[k] =>
                          proc[w].updatedScenes[k].audioDurationSeconds =
                              EstimatedDuration(proc[w].updatedScenes[k])

\* The renderer expects an audio track when it collected an audio file.
AudioExpected == obs.render.audioFiles # <<>>

\* C31 (integrity verifier): the verifier reports valid only if ffprobe
\* found a positive duration, the file has at least 10000 bytes and, when
\* audio is expected, the output has an audio stream and a video stream of
\* the requested resolution; a probe error is reported invalid.
C31_ValidOnlyIfComplete ==
    obs.render.checked /\ obs.render.valid =>
        LET output == obs.render.output IN
        /\ output.ffprobeOk /\ output.parseOk /\ output.statOk
        /\ output.duration > 0
        /\ output.size >= 10000
        /\ AudioExpected =>
              /\ output.hasAudio
              /\ output.width = DEFAULT_WIDTH /\ output.height = DEFAULT_HEIGHT

\* renderVideo has returned to the worker or raised.
RenderLeft == obs.render.exit \in {"returned", "raised"}

Transformed == obs.render.transforms # <<>>

ZoomsIn(t) == t.zoomStart < t.zoomEnd
ZoomsOut(t) == t.zoomStart > t.zoomEnd

\* C35 (render determinism): the scene at 0-based index i zooms in when i
\* is even and out when i is odd, its zoom lasts duration * fps frames,
\* and two scenes of the same index parity and duration get the same
\* transform whatever else differs between them (audio or none, probed or
\* estimated, position in the list, outcome of the downloads).
C35_TransformByIndexAndDuration ==
    Transformed =>
        LET scenes == proc[Primary].scenes
            transforms == obs.render.transforms
        IN /\ DOMAIN transforms = DOMAIN scenes
           /\ \A k \in DOMAIN scenes :
                 /\ (k - 1) % 2 = 0 => ZoomsIn(transforms[k])
                 /\ (k - 1) % 2 = 1 => ZoomsOut(transforms[k])
                 /\ transforms[k].frames = sceneDuration(scenes[k]) * DEFAULT_FPS
           /\ \A k, l \in DOMAIN scenes :
                 /\ (k - 1) % 2 = (l - 1) % 2
                 /\ sceneDuration(scenes[k]) = sceneDuration(scenes[l])
                 => transforms[k] = transforms[l]

\* A rendered list of three or more scenes in which scenes 1 and 3 last
\* equally long and scene 2 zooms out.
C35_Witness ==
    /\ Transformed /\ Len(proc[Primary].scenes) >= 3
    /\ sceneDuration(proc[Primary].scenes[1]) = sceneDuration(proc[Primary].scenes[3])
    /\ ZoomsOut(obs.render.transforms[2])
    /\ obs.render.transforms[1] = obs.render.transforms[3]

\* C40 (audio/video alignment): in the muxed output the audio clip of each
\* scene starts at that scene's startTime, the sum of the durations of the
\* scenes before it.
C40_AudioStartsAtSceneStart ==
    obs.render.checked =>
        \A p \in 1..Len(obs.render.audioFiles) :
            audioStart(obs.render.audioFiles, p)
                = proc[Primary].scenes[obs.render.audioFiles[p]].startTime

\* A rate-limit or quota error.
Retryable(error) ==
    error \cap {"429", "RATELIMIT_EXCEEDED", "quota", "rate limit"} # {}

\* C32 (bounded retry on retryable errors only): every attempt after the
\* first follows a rate-limit or quota error; no call makes more than
\* retries + 1 attempts; an error that is not retryable is the last attempt
\* and rejects the call; a retryable error at the last allowed attempt
\* rejects the call; the call resolves exactly on a result.
C32_RetryOnlyRetryableUpToCap ==
    LET call == obs.call
        n == Len(call.log)
    IN /\ n <= call.retries + 1
       /\ \A k \in 1..n :
             /\ k < n => Retryable(call.log[k])
             /\ call.log[k] # NoError /\ ~Retryable(call.log[k])
                   => k = n /\ call.status = "rejected"
       /\ n = call.retries + 1 /\ Retryable(call.log[n]) => call.status = "rejected"
       /\ call.status = "resolved" <=> n > 0 /\ call.log[n] = NoError
       /\ call.status = "pending" => n <= call.retries

\* generateImage gave up after four rate-limited attempts.
C32_Witness ==
    /\ obs.call.fn = "generateImage" /\ obs.call.status = "rejected"
    /\ Len(obs.call.log) = 4 /\ \A k \in 1..4 : Retryable(obs.call.log[k])

\* C33 (no lost timing updates): after k saveStepTiming calls for a
\* (contentType, stageType) pair have returned, the stored count is k more
\* than it was before them.
C33_TimingCountsEveryCompletion ==
    settings["script"] = obs.timing.before + obs.timing.completions["script"]

\* C36 (the queue pump cannot wedge): whenever a running process has ids in
\* its queue, or has isProcessing set, its pump is inside a processJob
\* call; a processJob that raised therefore leaves the pump taking the
\* next id, and an id enqueued later finds a pump that will reach it.
C36_PumpNeverWedged ==
    \A w \in Workers :
        proc[w].alive /\ (proc[w].isProcessing \/ proc[w].jobQueue # <<>>)
            => proc[w].pc # "idle"

\* The step in which the startup scan of worker w writes its clearing
\* update for the job at the head of its list.
ClearsLease(w) ==
    /\ proc[w].alive /\ proc[w].scanPc = "clearLease"
    /\ proc'[w].alive /\ proc'[w].scanJobs # proc[w].scanJobs

\* C37 (startup clearing spares valid leases): the clearing update of the
\* startup scan leaves lockedBy and leaseExpiresAt as they are when the
\* lease on the row is unexpired at the moment of the write, and the scan
\* issues the update only for a lease it saw expired.
C37_ClearingSparesValidLease ==
    [][\A w \in Workers :
          ClearsLease(w) =>
              LET j == Head(proc[w].scanJobs).id IN
              /\ IsStale(Head(proc[w].scanJobs).leaseExpiresAt, now)
              /\ Found(jobs[j]) /\ LeaseUnexpired(jobs[j]) =>
                    /\ jobs'[j].lockedBy = jobs[j].lockedBy
                    /\ jobs'[j].leaseExpiresAt = jobs[j].leaseExpiresAt]_vars

\* The step in which the releaseJobLock of the finally block of worker w
\* takes effect and its processJob call returns.
FinalRelease(w) ==
    /\ proc[w].alive /\ proc[w].pc = "release"
    /\ proc'[w].alive /\ proc'[w].pc # "release"

\* C38 (the release of a worker that lost its lease): when a worker leaves
\* processJob while the job is locked by another owner whose lease is
\* unexpired, its release leaves that owner's lockedBy and leaseExpiresAt
\* as they are, so the job stays closed to any further acquire.
C38_ReleaseSparesCurrentOwner ==
    [][\A w \in Workers :
          LET j == proc[w].jobId IN
          /\ FinalRelease(w)
          /\ Found(jobs[j]) /\ LeaseUnexpired(jobs[j])
          /\ jobs[j].lockedBy # WORKER_ID(w)
          => /\ jobs'[j].lockedBy = jobs[j].lockedBy
             /\ jobs'[j].leaseExpiresAt = jobs[j].leaseExpiresAt
             /\ ~LeaseAvailable(jobs'[j], now)]_vars

\* The step in which the acquireJobLock of the processJob call of worker w
\* is answered.
AcquireAnswered(w) ==
    /\ proc[w].alive /\ proc[w].pc = "acquire" /\ proc'[w].alive
    /\ \/ proc'[w].pc # "acquire"
       \/ Len(proc'[w].jobQueue) < Len(proc[w].jobQueue)

\* C39 (a refused acquire changes nothing): in the step in which
\* acquireJobLock is refused, the job records, JobSteps, assets and timing
\* stats stay as they are, no external call is made, no renewal timer is
\* started, the lease is neither released nor altered, and processJob
\* has returned to the pump.
C39_RefusedAcquireChangesNothing ==
    [][\A w \in Workers :
          /\ AcquireAnswered(w)
          /\ ~acquireJobLock(jobs[proc[w].jobId], WORKER_ID(w), now).ok
          => /\ UNCHANGED <<jobs, jobSteps, assets, settings, faults, cancelReq>>
             /\ ~proc'[w].leaseInterval
             /\ proc'[w].pc \in {"idle", "acquire"}
             /\ proc'[w].pc = "idle" => ~proc'[w].isProcessing]_vars

\* A process whose acquire was refused is idle again while the job it had
\* enqueued at startup is being worked on under the other process's lease.
C39_Witness ==
    \E w \in Workers, j \in Jobs :
        /\ proc[w].alive /\ proc[w].pc = "idle" /\ ~proc[w].isProcessing
        /\ proc[w].scanPc = "idle" /\ j \in obs.resumed[w]
        /\ Found(jobs[j]) /\ LeaseUnexpired(jobs[j])
        /\ jobs[j].lockedBy # WORKER_ID(w) /\ jobs[j].lockedBy[1] # w
        /\ jobs[j].status = "running"
=============================================================================
